---------------------------- MODULE Spec2Model ----------------------------
(***************************************************************************)
(* Model of the OpenShift RBAC / SCC reconciler of the Tekton operator     *)
(* (pkg/reconciler/openshift/tektonconfig/rbac.go).                         *)
(*                                                                         *)
(* The cluster (API server objects), the TektonConfig and the informer     *)
(* caches are the state.  One reconciliation pass, createResources, is one *)
(* action; every function it calls is an operator that threads a context   *)
(* record x through the API calls it makes, in the order the code makes    *)
(* them:                                                                   *)
(*    x.c    the cluster as the API server holds it                        *)
(*    x.inf  the informer caches (namespaces, cluster role binding)        *)
(*    x.k    the number of API calls issued so far in the pass             *)
(*    x.F    the numbers of the API calls that return an internal error    *)
(*    x.log  the write calls (Create/Update/Delete/Patch) issued so far    *)
(* Every operator returns [x |-> context after, err |-> error or ""].      *)
(***************************************************************************)
EXTENDS Integers, Sequences, FiniteSets, TLC

VARIABLES cluster, tektonConfig, informer, last, faults

vars == <<cluster, tektonConfig, informer, last, faults>>

---------------------------------------------------------------------------
(* Bounds of the model.                                                    *)

\* number of ordinary (non-reserved) namespaces
NumNs == 2
\* API calls of one pass that a fault may hit (calls are numbered from 1)
MaxCall == 50
\* passes of one behaviour that meet an API fault
MaxFaults == 1

---------------------------------------------------------------------------
(* Names fixed by the source.                                              *)

pipelinesSCCRole == "pipelines-scc-role"
pipelinesSCCClusterRole == "pipelines-scc-clusterrole"
pipelinesSCCRoleBinding == "pipelines-scc-rolebinding"
pipelineSA == "pipeline"
PipelineRoleBinding == "openshift-pipelines-edit"
clusterInterceptors == "openshift-pipelines-clusterinterceptors"
rbacParamName == "createRbacResource"
trustedCABundleParamName == "createCABundleConfigMaps"
legacyPipelineRbacParamName == "legacyPipelineRbac"

\* r.version: the release the operator process runs; PreviousVersion is the
\* value a namespace label carries from the release before.
version == "v2"
PreviousVersion == "v1"

\* Namespace names are <<prefix, number>>; the list call returns them in
\* this order.
NamespaceItems ==
    [i \in 1..NumNs |-> <<"app-", i>>] \o << <<"kube-", 1>> >>

Namespaces == {NamespaceItems[i] : i \in 1..Len(NamespaceItems)}

\* nsRegex = ^(openshift|kube)-
nsRegexMatch(name) == name[1] \in {"openshift-", "kube-"}

\* An object that Get does not find.
Absent == [absent |-> TRUE]

\* Errors.
NoErr == ""
InternalError == "InternalError"
NotFoundErr == "NotFound"
ConflictErr == "Conflict"
PolicyViolation == "PolicyViolation"
RECONCILE_AGAIN_ERR == "reconcile again and proceed"
NilSAErr == "ServiceAccount is nil"

\* Owner references.  r.ownerRef is configOwnerRef(rbacISet), the installer
\* set of the running version; the service account is owned by TektonConfig.
InstallerSetRef(v) ==
    [APIVersion |-> "operator.tekton.dev/v1alpha1", Kind |-> "TektonInstallerSet",
     Name |-> <<"rhosp-rbac-", v>>]

rOwnerRef == InstallerSetRef(version)

tektonConfigOwnerRef ==
    [APIVersion |-> "operator.tekton.dev/v1alpha1", Kind |-> "TektonConfig",
     Name |-> <<"config", "">>]

SASubject(ns) == [Kind |-> "ServiceAccount", Name |-> pipelineSA, Namespace |-> ns]

---------------------------------------------------------------------------
(* Security context constraints: the external policy service.              *)

\* GetSCCRestrictiveList: the SCCs of the cluster, most restrictive first.
prioritizedSCCList == <<"restricted", "nonroot", "privileged">>

SCCsOnCluster == {prioritizedSCCList[i] : i \in 1..Len(prioritizedSCCList)}

\* A name no SCC of the cluster carries.
UnknownSCC == "no-such-scc"

SCCIndex(name) == CHOOSE i \in 1..Len(prioritizedSCCList) : prioritizedSCCList[i] = name

\* common.SCCAMoreRestrictiveThanB: A is at least as restrictive as B, by
\* index lookup in the prioritized list.
SCCAMoreRestrictiveThanB(a, b) == SCCIndex(a) <= SCCIndex(b)

---------------------------------------------------------------------------
(* The context threaded through the API calls of one pass.                 *)

\* The next API call is issued.
Issue(x) == [x EXCEPT !.k = @ + 1]

\* The next API call returns an internal error.
Faulty(x) == (x.k + 1) \in x.F

\* A write call that succeeded is recorded.
Log(x, verb, kind, ns) == [x EXCEPT !.log = Append(@, <<verb, kind, ns>>)]

Ret(x, err) == [x |-> x, err |-> err]

---------------------------------------------------------------------------
(* Subjects and owner references.                                          *)

hasSubject(subjects, s) ==
    \E i \in 1..Len(subjects) :
        /\ subjects[i].Name = s.Name
        /\ subjects[i].Kind = s.Kind
        /\ subjects[i].Namespace = s.Namespace

SubjectSet(list) == {list[i] : i \in 1..Len(list)}

\* CompareSubjects: same length and same set of Kind/Name/Namespace keys.
CompareSubjects(list1, list2) ==
    /\ Len(list1) = Len(list2)
    /\ SubjectSet(list1) = SubjectSet(list2)

RECURSIVE AppendMissing(_, _, _)
AppendMissing(final, existing, xs) ==
    IF xs = <<>> THEN final
    ELSE AppendMissing(IF Head(xs) \in existing THEN final ELSE Append(final, Head(xs)),
                       existing, Tail(xs))

\* A merge that keeps the input list only.
mergeSubjects_Replace(subjects, xs) == xs

\* A merge that appends the input list as it is.
mergeSubjects_Concat(subjects, xs) == subjects \o xs

\* mergeSubjects: the live list, then the members of xs whose key the live
\* list does not hold.
mergeSubjects(subjects, xs) == AppendMissing(subjects, SubjectSet(subjects), xs)

hasOwnerRefernce(old, new) ==
    \E i \in 1..Len(old) :
        /\ old[i].APIVersion = new.APIVersion
        /\ old[i].Kind = new.Kind
        /\ old[i].Name = new.Name

RemoveAt(s, i) == SubSeq(s, 1, i - 1) \o SubSeq(s, i + 1, Len(s))

\* removeAndUpdate: drop index s, append r.ownerRef.
removeAndUpdate(slice, s) == Append(RemoveAt(slice, s), rOwnerRef)

\* updateOwnerRefs: an empty list becomes [r.ownerRef]; otherwise the first
\* reference that differs from r.ownerRef is replaced.
updateOwnerRefs(ownerRef) ==
    IF Len(ownerRef) = 0 THEN <<rOwnerRef>>
    ELSE LET differs == {i \in 1..Len(ownerRef) : ownerRef[i] # rOwnerRef}
         IN IF differs = {} THEN ownerRef
            ELSE removeAndUpdate(ownerRef, CHOOSE i \in differs : \A j \in differs : i <= j)

removeIndex(s, index) == RemoveAt(s, index)

---------------------------------------------------------------------------
(* TektonConfig parameters.                                                *)

\* isLegacyRBACEnabled: the first legacyPipelineRbac parameter decides.
isLegacyRBACEnabled(tc) ==
    LET hits == {i \in 1..Len(tc.Params) : tc.Params[i].Name = legacyPipelineRbacParamName}
    IN IF hits = {} THEN TRUE
       ELSE tc.Params[CHOOSE i \in hits : \A j \in hits : i <= j].Value # "false"

\* The flag loops of createResources: any parameter of that name with value
\* "false" switches the feature off.
ParamIsFalse(tc, name) ==
    \E i \in 1..Len(tc.Params) : tc.Params[i].Name = name /\ tc.Params[i].Value = "false"

---------------------------------------------------------------------------
(* Step 1 of processRBAC: the workload identity.                           *)

\* What Create hands back with an error: no object, or an object without
\* name and namespace, as the client library is built.
EmptySA == [Name |-> "", Namespace |-> <<"", 0>>]

\* createSA: Create with the TektonConfig owner reference.  When somebody
\* else has created the identity since the Get, Create answers
\* already-exists: the error is dropped and what Create handed back is
\* returned.
createSA(x, ns) ==
    IF Faulty(x) THEN [x |-> Issue(x), err |-> InternalError, sa |-> Absent]
    ELSE IF ns \in x.race
    THEN [x |-> [Issue(x) EXCEPT !.c.sa[ns] = [OwnerReferences |-> <<>>]],
          err |-> NoErr,
          sa |-> IF x.raceNil THEN Absent ELSE EmptySA]
    ELSE [x |-> Log([Issue(x) EXCEPT !.c.sa[ns] = [OwnerReferences |-> <<tektonConfigOwnerRef>>]],
                    "Create", "ServiceAccount", ns),
          err |-> NoErr,
          sa |-> [Name |-> pipelineSA, Namespace |-> ns]]

\* An ensure of the identity that adds the TektonConfig reference to the
\* references it finds instead of replacing them.
ensureSA_AddRef(x, ns) ==
    IF Faulty(x) THEN [x |-> Issue(x), err |-> InternalError, sa |-> Absent]
    ELSE IF x.c.sa[ns] = Absent THEN createSA(Issue(x), ns)
    ELSE LET x1 == Issue(x)
         IN IF Faulty(x1) THEN [x |-> Issue(x1), err |-> InternalError, sa |-> Absent]
            ELSE [x |-> Log([Issue(x1) EXCEPT !.c.sa[ns].OwnerReferences =
                                 Append(@, tektonConfigOwnerRef)],
                            "Update", "ServiceAccount", ns),
                  err |-> NoErr,
                  sa |-> [Name |-> pipelineSA, Namespace |-> ns]]

\* ensureSA: Get; create when not found; otherwise overwrite the owner
\* references and Update, whatever they were.
ensureSA(x, ns) ==
    IF Faulty(x) THEN [x |-> Issue(x), err |-> InternalError, sa |-> Absent]
    ELSE IF x.c.sa[ns] = Absent THEN createSA(Issue(x), ns)
    ELSE LET x1 == Issue(x)
         IN IF Faulty(x1) THEN [x |-> Issue(x1), err |-> InternalError, sa |-> Absent]
            ELSE [x |-> Log([Issue(x1) EXCEPT !.c.sa[ns] =
                                 [OwnerReferences |-> <<tektonConfigOwnerRef>>]],
                            "Update", "ServiceAccount", ns),
                  err |-> NoErr,
                  sa |-> [Name |-> pipelineSA, Namespace |-> ns]]

---------------------------------------------------------------------------
(* Step 2 of processRBAC: the security-policy grant.                       *)

SCCRuleRole(scc) ==
    [ResourceNames |-> <<scc>>, Verbs |-> <<"use">>, OwnerReferences |-> <<rOwnerRef>>]

\* ensureSCCRoleInNamespace: Get; Create when not found, else Update with
\* the freshly built Role.
ensureSCCRoleInNamespace(x, ns, scc) ==
    IF Faulty(x) THEN Ret(Issue(x), InternalError)
    ELSE LET x1 == Issue(x)
             verb == IF x.c.role[ns] = Absent THEN "Create" ELSE "Update"
         IN IF Faulty(x1) THEN Ret(Issue(x1), InternalError)
            ELSE Ret(Log([Issue(x1) EXCEPT !.c.role[ns] = SCCRuleRole(scc)], verb, "Role", ns),
                     NoErr)

\* An ensure of the shared ClusterRole that creates it when it is missing
\* and leaves one it finds as it is.
ensurePipelinesSCClusterRole_CreateOnly(x) ==
    IF Faulty(x) THEN Ret(Issue(x), InternalError)
    ELSE IF x.c.sccClusterRole # Absent THEN Ret(Issue(x), NoErr)
    ELSE IF Faulty(Issue(x)) THEN Ret(Issue(Issue(x)), InternalError)
    ELSE Ret(Log([Issue(Issue(x)) EXCEPT !.c.sccClusterRole = SCCRuleRole(x.tc.Default)],
                 "Create", "ClusterRole", pipelinesSCCClusterRole),
             NoErr)

\* ensurePipelinesSCClusterRole: the same for the shared ClusterRole, which
\* grants use of the default SCC of TektonConfig.
ensurePipelinesSCClusterRole(x) ==
    IF Faulty(x) THEN Ret(Issue(x), InternalError)
    ELSE LET x1 == Issue(x)
             verb == IF x.c.sccClusterRole = Absent THEN "Create" ELSE "Update"
         IN IF Faulty(x1) THEN Ret(Issue(x1), InternalError)
            ELSE Ret(Log([Issue(x1) EXCEPT !.c.sccClusterRole = SCCRuleRole(x.tc.Default)],
                         verb, "ClusterRole", pipelinesSCCClusterRole),
                     NoErr)

\* createSCCFailureEventInNamespace: a Warning event in the namespace.
createSCCFailureEventInNamespace(x, ns, scc) ==
    IF Faulty(x) THEN Ret(Issue(x), InternalError)
    ELSE Ret(Log([Issue(x) EXCEPT !.c.events = @ \cup {<<ns, scc>>}], "Create", "Event", ns),
             NoErr)

\* common.VerifySCCExists: Get of the SCC.
VerifySCCExists(x, scc) ==
    IF Faulty(x) THEN Ret(Issue(x), InternalError)
    ELSE IF scc \in SCCsOnCluster THEN Ret(Issue(x), NoErr)
    ELSE Ret(Issue(x), NotFoundErr)

\* A handleSCCInNamespace that writes the Role without looking at the
\* ceiling.
CheckMaxAllowedThenRole_NoCheck(x, ns, nsSCC) == ensureSCCRoleInNamespace(x, ns, nsSCC)

\* The maxAllowed check of handleSCCInNamespace, then the Role.
CheckMaxAllowedThenRole(x, ns, nsSCC) ==
    IF x.tc.MaxAllowed # ""
    THEN \* GetSCCRestrictiveList is a List call
         IF Faulty(x) THEN Ret(Issue(x), InternalError)
         ELSE IF ~(nsSCC \in SCCsOnCluster /\ x.tc.MaxAllowed \in SCCsOnCluster)
              THEN Ret(Issue(x), NotFoundErr)
         ELSE IF ~SCCAMoreRestrictiveThanB(nsSCC, x.tc.MaxAllowed)
              THEN Ret(Issue(x), PolicyViolation)
         ELSE ensureSCCRoleInNamespace(Issue(x), ns, nsSCC)
    ELSE ensureSCCRoleInNamespace(x, ns, nsSCC)

\* The branch of handleSCCInNamespace for a namespace without annotation: a
\* leftover Role is deleted.
DeleteLeftoverRole(x, ns) ==
    IF Faulty(x) THEN Ret(Issue(x), InternalError)
    ELSE IF x.c.role[ns] = Absent THEN Ret(Issue(x), NoErr)
    ELSE LET x1 == Issue(x)
         IN IF Faulty(x1) THEN Ret(Issue(x1), InternalError)
            ELSE Ret(Log([Issue(x1) EXCEPT !.c.role[ns] = Absent], "Delete", "Role", ns), NoErr)

\* The SCC of the annotation does not exist: the Warning event is created
\* and the error of the verification returned, or the error of the event.
handleSCCInNamespace_event(e, err) == IF e.err # NoErr THEN e ELSE Ret(e.x, err)

\* A handleSCCInNamespace that returns the error of the verification and
\* writes no event.
handleSCCInNamespace_verified_NoEvent(v, ns, nsSCC) ==
    IF v.err # NoErr THEN v ELSE CheckMaxAllowedThenRole(v.x, ns, nsSCC)

\* v is what VerifySCCExists returned.
handleSCCInNamespace_verified(v, ns, nsSCC) ==
    IF v.err # NoErr
    THEN handleSCCInNamespace_event(createSCCFailureEventInNamespace(v.x, ns, nsSCC), v.err)
    ELSE CheckMaxAllowedThenRole(v.x, ns, nsSCC)

handleSCCInNamespace(x, ns) ==
    IF x.nsl[ns].scc = "" THEN DeleteLeftoverRole(x, ns)
    ELSE handleSCCInNamespace_verified(VerifySCCExists(x, x.nsl[ns].scc), ns, x.nsl[ns].scc)

\* A getSCCRoleInNamespace that answers the shared ClusterRole whatever the
\* annotation says.
getSCCRoleInNamespace_Shared(x, ns) ==
    [Kind |-> "ClusterRole", Name |-> pipelinesSCCClusterRole]

\* getSCCRoleInNamespace: Role when the annotation asks for an SCC, the
\* shared ClusterRole otherwise.
getSCCRoleInNamespace(x, ns) ==
    IF x.nsl[ns].scc # ""
    THEN [Kind |-> "Role", Name |-> pipelinesSCCRole]
    ELSE [Kind |-> "ClusterRole", Name |-> pipelinesSCCClusterRole]

---------------------------------------------------------------------------
(* Steps 3 and 4 of processRBAC: the grant binding and the legacy binding. *)

\* The two role bindings of a namespace are the fields sccRB and editRB of
\* the cluster; which names the field an operator works on.
RBKind(which) == IF which = "sccRB" THEN pipelinesSCCRoleBinding ELSE PipelineRoleBinding

GetRB(x, which, ns) == IF which = "sccRB" THEN x.c.sccRB[ns] ELSE x.c.editRB[ns]

PutRB(x, which, ns, rb) ==
    IF which = "sccRB" THEN [x EXCEPT !.c.sccRB[ns] = rb] ELSE [x EXCEPT !.c.editRB[ns] = rb]

\* The subject the bindings name for a ServiceAccount object.
SubjectOf(sa) == [Kind |-> "ServiceAccount", Name |-> sa.Name, Namespace |-> sa.Namespace]

NewRoleBinding(sa, roleRef) ==
    [RoleRef |-> roleRef,
     Subjects |-> <<SubjectOf(sa)>>,
     OwnerReferences |-> <<rOwnerRef>>]

\* createSCCRoleBinding: Create, bound to roleRef, the identity sole subject.
createSCCRoleBinding(x, sa, roleRef) ==
    IF Faulty(x) THEN Ret(Issue(x), InternalError)
    ELSE Ret(Log(PutRB(Issue(x), "sccRB", sa.Namespace, NewRoleBinding(sa, roleRef)),
                 "Create", pipelinesSCCRoleBinding, sa.Namespace),
             NoErr)

\* The second Update of updateRoleBinding, after the first returned first:
\* skipped when the subject was there and the owner list is not empty.
updateRoleBinding_second(first, which, ns, rb1, skip) ==
    IF first.err # NoErr \/ skip THEN first
    ELSE IF Faulty(first.x) THEN Ret(Issue(first.x), InternalError)
    ELSE Ret(Log(PutRB(Issue(first.x), which, ns, rb1), "Update", RBKind(which), ns), NoErr)

\* The first Update of updateRoleBinding, when the owner reference was
\* missing.
updateRoleBinding_first(x, which, ns, rb1, hasOwnerRef) ==
    IF hasOwnerRef THEN Ret(x, NoErr)
    ELSE IF Faulty(x) THEN Ret(Issue(x), InternalError)
    ELSE Ret(Log(PutRB(Issue(x), which, ns, rb1), "Update", RBKind(which), ns), NoErr)

\* The binding updateRoleBinding sends: the subject appended when missing,
\* the role reference set, the owner references repaired.
updateRoleBinding_object(rb, subject, roleRef) ==
    [RoleRef |-> roleRef,
     Subjects |-> IF hasSubject(rb.Subjects, subject) THEN rb.Subjects
                  ELSE Append(rb.Subjects, subject),
     OwnerReferences |-> updateOwnerRefs(rb.OwnerReferences)]

\* updateRoleBinding: append the subject when missing, set the role
\* reference, repair the owner references; Update when the owner reference
\* was missing, and Update (again) unless the subject was there and the
\* owner list is not empty.
updateRoleBinding(x, which, rb, sa, roleRef) ==
    updateRoleBinding_second(
        updateRoleBinding_first(x, which, sa.Namespace,
                                updateRoleBinding_object(rb, SubjectOf(sa), roleRef),
                                hasOwnerRefernce(rb.OwnerReferences, rOwnerRef)),
        which, sa.Namespace,
        updateRoleBinding_object(rb, SubjectOf(sa), roleRef),
        hasSubject(rb.Subjects, SubjectOf(sa))
            /\ Len(updateOwnerRefs(rb.OwnerReferences)) # 0)

\* The Get of the role the binding is to point at.
RoleExists(x, ns, roleRef) ==
    IF roleRef.Kind = "Role" THEN x.c.role[ns] # Absent ELSE x.c.sccClusterRole # Absent

\* An ensure of the grant binding that deletes and recreates every binding
\* it finds, also one bound to the right role.
ensurePipelinesSCCRoleBinding_Recreate(x, sa, roleRef) ==
    LET ns == sa.Namespace
    IN IF Faulty(x) THEN Ret(Issue(x), InternalError)
       ELSE IF ~RoleExists(x, ns, roleRef) THEN Ret(Issue(x), NotFoundErr)
       ELSE LET x1 == Issue(x)
            IN IF Faulty(x1) THEN Ret(Issue(x1), InternalError)
               ELSE IF x1.c.sccRB[ns] = Absent THEN createSCCRoleBinding(Issue(x1), sa, roleRef)
               ELSE LET x2 == Issue(x1)
                    IN IF Faulty(x2) THEN Ret(Issue(x2), InternalError)
                       ELSE createSCCRoleBinding(
                                Log([Issue(x2) EXCEPT !.c.sccRB[ns] = Absent],
                                    "Delete", pipelinesSCCRoleBinding, ns),
                                sa, roleRef)

\* An ensure of the grant binding that updates every binding it finds in
\* place, also one bound to another role.
ensurePipelinesSCCRoleBinding_InPlace(x, sa, roleRef) ==
    LET ns == sa.Namespace
    IN IF Faulty(x) THEN Ret(Issue(x), InternalError)
       ELSE IF ~RoleExists(x, ns, roleRef) THEN Ret(Issue(x), NotFoundErr)
       ELSE LET x1 == Issue(x)
            IN IF Faulty(x1) THEN Ret(Issue(x1), InternalError)
               ELSE IF x1.c.sccRB[ns] = Absent THEN createSCCRoleBinding(Issue(x1), sa, roleRef)
               ELSE updateRoleBinding(Issue(x1), "sccRB", x1.c.sccRB[ns], sa, roleRef)

\* ensurePipelinesSCCRoleBinding: the role must exist; create the binding
\* when missing; delete and recreate it when it points at another role;
\* otherwise updateRoleBinding.
ensurePipelinesSCCRoleBinding(x, sa, roleRef) ==
    LET ns == sa.Namespace
    IN IF Faulty(x) THEN Ret(Issue(x), InternalError)
       ELSE IF ~RoleExists(x, ns, roleRef) THEN Ret(Issue(x), NotFoundErr)
       ELSE LET x1 == Issue(x)
                pipelineRB == x1.c.sccRB[ns]
            IN IF Faulty(x1) THEN Ret(Issue(x1), InternalError)
               ELSE IF pipelineRB = Absent THEN createSCCRoleBinding(Issue(x1), sa, roleRef)
               ELSE IF pipelineRB.RoleRef.Kind # roleRef.Kind
                       \/ pipelineRB.RoleRef.Name # roleRef.Name
               THEN LET x2 == Issue(x1)
                    IN IF Faulty(x2) THEN Ret(Issue(x2), InternalError)
                       ELSE createSCCRoleBinding(
                                Log([Issue(x2) EXCEPT !.c.sccRB[ns] = Absent],
                                    "Delete", pipelinesSCCRoleBinding, ns),
                                sa, roleRef)
               ELSE updateRoleBinding(Issue(x1), "sccRB", pipelineRB, sa, roleRef)

EditRoleRef == [Kind |-> "ClusterRole", Name |-> "edit"]

\* createRoleBinding: Get of the ClusterRole edit (a role of the platform,
\* always there), then Create.
createRoleBinding(x, sa) ==
    IF Faulty(x) THEN Ret(Issue(x), InternalError)
    ELSE LET x1 == Issue(x)
         IN IF Faulty(x1) THEN Ret(Issue(x1), InternalError)
            ELSE Ret(Log(PutRB(Issue(x1), "editRB", sa.Namespace, NewRoleBinding(sa, EditRoleRef)),
                         "Create", PipelineRoleBinding, sa.Namespace),
                     NoErr)

\* ensureRoleBindings: with the legacy toggle off the binding is deleted
\* when found; with it on the binding is updated or created.
ensureRoleBindings(x, sa) ==
    LET ns == sa.Namespace
        legacyEnabled == isLegacyRBACEnabled(x.tc)
        getFails == Faulty(x)
        x1 == Issue(x)
        editRB == x.c.editRB[ns]
    IN IF ~legacyEnabled /\ ~getFails /\ editRB # Absent
       THEN IF Faulty(x1) THEN Ret(Issue(x1), InternalError)
            ELSE Ret(Log([Issue(x1) EXCEPT !.c.editRB[ns] = Absent],
                         "Delete", PipelineRoleBinding, ns), NoErr)
       ELSE IF ~legacyEnabled THEN Ret(x1, NoErr)
       ELSE IF ~getFails /\ editRB # Absent
            THEN updateRoleBinding(x1, "editRB", editRB, sa, EditRoleRef)
       ELSE IF ~getFails THEN createRoleBinding(x1, sa)
       ELSE Ret(x1, InternalError)

\* processRBAC returns no ServiceAccount with the error of a step.
processRBAC_failed(r) == [x |-> r.x, err |-> r.err, sa |-> Absent]

\* e is what ensureRoleBindings returned.
processRBAC_done(e, sa) ==
    IF e.err # NoErr THEN processRBAC_failed(e) ELSE [x |-> e.x, err |-> NoErr, sa |-> sa]

\* b is what ensurePipelinesSCCRoleBinding returned.
processRBAC_legacy(b, sa) ==
    IF b.err # NoErr THEN processRBAC_failed(b)
    ELSE processRBAC_done(ensureRoleBindings(b.x, sa), sa)

\* ensurePipelinesSCCRoleBinding for a ServiceAccount object without
\* namespace: the Get of a Role or of the binding in no namespace finds
\* nothing, the Create in no namespace is refused.
ensurePipelinesSCCRoleBinding_noNamespace(x, roleRef) ==
    IF Faulty(x) THEN Ret(Issue(x), InternalError)
    ELSE IF roleRef.Kind = "Role" \/ x.c.sccClusterRole = Absent THEN Ret(Issue(x), NotFoundErr)
    ELSE Ret(Issue(Issue(Issue(x))), InternalError)

\* h is what handleSCCInNamespace returned.
processRBAC_binding(h, sa, ns) ==
    IF h.err # NoErr THEN processRBAC_failed(h)
    ELSE IF sa.Namespace \notin Namespaces
    THEN processRBAC_failed(
             ensurePipelinesSCCRoleBinding_noNamespace(h.x, getSCCRoleInNamespace(h.x, ns)))
    ELSE processRBAC_legacy(
             ensurePipelinesSCCRoleBinding(h.x, sa, getSCCRoleInNamespace(h.x, ns)), sa)

\* s is what ensureSA returned.
processRBAC_scc(s, ns) ==
    IF s.err # NoErr THEN processRBAC_failed(s)
    ELSE IF s.sa = Absent THEN [x |-> s.x, err |-> NilSAErr, sa |-> Absent]
    ELSE processRBAC_binding(handleSCCInNamespace(s.x, ns), s.sa, ns)

\* processRBAC: the four steps for one namespace, the first error ends it.
processRBAC(x, ns) == processRBAC_scc(ensureSA(x, ns), ns)

---------------------------------------------------------------------------
(* The cluster role binding openshift-pipelines-clusterinterceptors.       *)

\* What the informers hold once they have caught up with the cluster.
Observe(c) == [ns |-> c.ns, crb |-> c.ciCRB]

\* The namespaces a lister returns for the selector
\* namespace-reconcile-version = r.version.
NamespacesAtVersion(nss) ==
    {n \in Namespaces : nss[n].phase # "Gone" /\ nss[n].rbac = version}

\* The loop of removeAndUpdateNSFromCI: i runs over the indexes of the list
\* as it shrinks; an entry is dropped when the sizes differ and its
\* namespace is not in nsMap, and i moves on all the same.
RECURSIVE PruneLoop(_, _, _)
PruneLoop(subjects, i, nsMap) ==
    IF i > Len(subjects) THEN subjects
    ELSE IF Cardinality(nsMap) # Len(subjects) /\ subjects[i].Namespace \notin nsMap
         THEN PruneLoop(removeIndex(subjects, i), i + 1, nsMap)
         ELSE PruneLoop(subjects, i + 1, nsMap)

\* removeAndUpdateNSFromCI: reads the binding and the namespaces from the
\* informers, prunes, and sends the pruned cached object with Update.  The
\* object sent carries the resource version the cache holds: the API server
\* refuses it with a conflict when the binding has been written since.
removeAndUpdateNSFromCI(x) ==
    LET rb == x.inf.crb
    IN IF rb = Absent THEN Ret(x, NoErr)
       ELSE LET nsMap == NamespacesAtVersion(x.inf.ns)
                pruned == PruneLoop(rb.Subjects, 1, nsMap)
                update == pruned # rb.Subjects
                xi == [x EXCEPT !.inf.crb.Subjects = pruned]
            IN IF ~update THEN Ret(x, NoErr)
               ELSE IF Faulty(xi) THEN Ret(Issue(xi), InternalError)
               ELSE IF xi.c.ciCRB = Absent THEN Ret(Issue(xi), NotFoundErr)
               ELSE IF xi.c.ciCRB # rb THEN Ret(Issue(xi), ConflictErr)
               ELSE Ret(Log([Issue(xi) EXCEPT !.c.ciCRB = xi.inf.crb],
                            "Update", "ClusterRoleBinding", clusterInterceptors), NoErr)

\* createClusterRole: the ClusterRole of the cluster interceptors.
createClusterRole(x) ==
    IF Faulty(x) THEN Ret(Issue(x), InternalError)
    ELSE Ret(Log([Issue(x) EXCEPT !.c.ciClusterRole = [OwnerReferences |-> <<rOwnerRef>>]],
                 "Create", "ClusterRole", clusterInterceptors), NoErr)

PutCRB(x, rb, verb) ==
    Log([Issue(x) EXCEPT !.c.ciCRB = rb], verb, "ClusterRoleBinding", clusterInterceptors)

\* bulkUpdateClusterRoleBinding: merge when the two lists differ as sets,
\* repair the owner references, Update as updateRoleBinding does.
bulkUpdateClusterRoleBinding(x, rb, subjectlist) ==
    LET has == CompareSubjects(rb.Subjects, subjectlist)
        hasOwnerRef == hasOwnerRefernce(rb.OwnerReferences, rOwnerRef)
        ownerRef == updateOwnerRefs(rb.OwnerReferences)
        rb1 == [Subjects |-> IF has THEN rb.Subjects ELSE mergeSubjects(rb.Subjects, subjectlist),
                OwnerReferences |-> ownerRef]
        first == IF hasOwnerRef THEN Ret(x, NoErr)
                 ELSE IF Faulty(x) THEN Ret(Issue(x), InternalError)
                 ELSE Ret(PutCRB(x, rb1, "Update"), NoErr)
    IN IF first.err # NoErr THEN first
       ELSE IF has /\ Len(ownerRef) # 0 THEN first
       ELSE IF Faulty(first.x) THEN Ret(Issue(first.x), InternalError)
       ELSE Ret(PutCRB(first.x, rb1, "Update"), NoErr)

\* bulkCreateClusterRoleBinding: Get of the ClusterRole, then Create.
bulkCreateClusterRoleBinding(x, subjectlist) ==
    IF Faulty(x) THEN Ret(Issue(x), InternalError)
    ELSE IF x.c.ciClusterRole = Absent THEN Ret(Issue(x), NotFoundErr)
    ELSE LET x1 == Issue(x)
         IN IF Faulty(x1) THEN Ret(Issue(x1), InternalError)
            ELSE Ret(PutCRB(x1, [Subjects |-> subjectlist, OwnerReferences |-> <<rOwnerRef>>],
                            "Create"), NoErr)

\* The subjects handleClusterRoleBinding builds from namespacesToUpdate.
SubjectsOf(namespacesToUpdate) ==
    [i \in 1..Len(namespacesToUpdate) |->
        [Kind |-> "ServiceAccount",
         Name |-> namespacesToUpdate[i].ServiceAccount.Name,
         Namespace |-> namespacesToUpdate[i].ServiceAccount.Namespace]]

\* handleClusterRoleBinding: the ClusterRole is created when the Get says
\* not found (another error of that Get is not looked at); the binding is
\* updated when found, created when not found.
handleClusterRoleBinding(x, namespacesToUpdate) ==
    LET cr == IF ~Faulty(x) /\ x.c.ciClusterRole = Absent
              THEN createClusterRole(Issue(x))
              ELSE Ret(Issue(x), NoErr)
        subjects == SubjectsOf(namespacesToUpdate)
    IN IF cr.err # NoErr THEN cr
       ELSE IF Faulty(cr.x) THEN Ret(Issue(cr.x), InternalError)
       ELSE IF cr.x.c.ciCRB # Absent
            THEN bulkUpdateClusterRoleBinding(Issue(cr.x), cr.x.c.ciCRB, subjects)
            ELSE bulkCreateClusterRoleBinding(Issue(cr.x), subjects)

---------------------------------------------------------------------------
(* The installer set of the release and the prerequisites.                 *)

\* The loop of cleanUp over the namespaces the List returned: the label is
\* removed with an Update of each namespace; the first error ends the loop.
RECURSIVE cleanUpLoop(_, _)
cleanUpLoop(x, items) ==
    IF items = <<>> THEN Ret(x, NoErr)
    ELSE IF Faulty(x) THEN Ret(Issue(x), InternalError)
    ELSE cleanUpLoop(Log([Issue(x) EXCEPT !.c.ns[Head(items)].rbac = ""],
                         "Update", "Namespace", Head(items)),
                     Tail(items))

\* The items of a namespace list, in list order: the namespaces that exist
\* and, when onlyAtVersion, carry the rbac-version label of this release.
ListNamespaces(c, onlyAtVersion) ==
    SelectSeq(NamespaceItems,
              LAMBDA n : c.ns[n].phase # "Gone" /\ (onlyAtVersion => c.ns[n].rbac = version))

\* A cleanUp that lists the namespaces and removes no label.
cleanUp_NoClear(x) ==
    IF Faulty(x) THEN Ret(Issue(x), InternalError) ELSE Ret(Issue(x), NoErr)

\* cleanUp: List with the selector namespace-reconcile-version = r.version,
\* then the loop.
cleanUp(x) ==
    IF Faulty(x) THEN Ret(Issue(x), InternalError)
    ELSE cleanUpLoop(Issue(x), ListNamespaces(x.c, TRUE))

\* removeObsoleteRBACInstallerSet: Delete of rbac-resources, not found is
\* not an error.
removeObsoleteRBACInstallerSet(x) ==
    IF Faulty(x) THEN Ret(Issue(x), InternalError)
    ELSE IF x.c.isetOld
         THEN Ret(Log([Issue(x) EXCEPT !.c.isetOld = FALSE],
                      "Delete", "TektonInstallerSet", "rbac-resources"), NoErr)
         ELSE Ret(Issue(x), NoErr)

\* checkIfInstallerSetExist: the installer set of this release, if any.
checkIfInstallerSetExist(x) ==
    IF Faulty(x) THEN [x |-> Issue(x), err |-> InternalError, found |-> FALSE]
    ELSE [x |-> Issue(x), err |-> NoErr, found |-> x.c.iset = version]

\* createInstallerSet: the installer set of this release is created.
createInstallerSet(x) ==
    IF Faulty(x) THEN Ret(Issue(x), InternalError)
    ELSE Ret(Log([Issue(x) EXCEPT !.c.iset = version],
                 "Create", "TektonInstallerSet", <<"rhosp-rbac-", version>>), NoErr)

\* A gate that goes on with the pass once the installer set is created.
EnsureRBACInstallerSet_requeue_Proceed(cr) == cr

\* cr is what createInstallerSet returned.
EnsureRBACInstallerSet_requeue(cr) ==
    IF cr.err # NoErr THEN cr ELSE Ret(cr.x, RECONCILE_AGAIN_ERR)

\* A gate that creates the installer set whatever cleanUp returned.
EnsureRBACInstallerSet_create_IgnoreCleanUp(cl) ==
    EnsureRBACInstallerSet_requeue(createInstallerSet(cl.x))

\* cl is what cleanUp returned.
EnsureRBACInstallerSet_create(cl) ==
    IF cl.err # NoErr THEN cl ELSE EnsureRBACInstallerSet_requeue(createInstallerSet(cl.x))

\* A gate that cleans the labels and creates the installer set whether it
\* found one or not.
EnsureRBACInstallerSet_found_AlwaysClean(e) ==
    IF e.err # NoErr THEN Ret(e.x, e.err)
    ELSE EnsureRBACInstallerSet_create(cleanUp(e.x))

\* e is what checkIfInstallerSetExist returned.
EnsureRBACInstallerSet_found(e) ==
    IF e.err # NoErr THEN Ret(e.x, e.err)
    ELSE IF e.found THEN Ret(e.x, NoErr)
    ELSE EnsureRBACInstallerSet_create(cleanUp(e.x))

\* d is what removeObsoleteRBACInstallerSet returned.
EnsureRBACInstallerSet_check(d) ==
    IF d.err # NoErr THEN d ELSE EnsureRBACInstallerSet_found(checkIfInstallerSetExist(d.x))

\* EnsureRBACInstallerSet: the obsolete set is removed; when the set of this
\* release is missing the labels are cleaned, the set is created and the
\* caller is asked to reconcile again.
EnsureRBACInstallerSet(x) == EnsureRBACInstallerSet_check(removeObsoleteRBACInstallerSet(x))

\* A validation that checks the two SCCs exist and does not compare them.
ValidateSCCConfig_NoOrder(x) ==
    IF x.tc.Default = "" THEN Ret(x, InternalError)
    ELSE LET v == VerifySCCExists(x, x.tc.Default)
         IN IF v.err # NoErr THEN v
            ELSE IF Faulty(v.x) THEN Ret(Issue(v.x), InternalError)
            ELSE IF x.tc.MaxAllowed = "" THEN Ret(Issue(v.x), NoErr)
            ELSE VerifySCCExists(Issue(v.x), x.tc.MaxAllowed)

\* The validation of the default and the maxAllowed SCC in
\* ensurePreRequisites.
ValidateSCCConfig(x) ==
    IF x.tc.Default = "" THEN Ret(x, InternalError)
    ELSE LET v == VerifySCCExists(x, x.tc.Default)
         IN IF v.err # NoErr THEN v
            \* GetSCCRestrictiveList is a List call
            ELSE IF Faulty(v.x) THEN Ret(Issue(v.x), InternalError)
            ELSE IF x.tc.MaxAllowed = "" THEN Ret(Issue(v.x), NoErr)
            ELSE LET m == VerifySCCExists(Issue(v.x), x.tc.MaxAllowed)
                 IN IF m.err # NoErr THEN m
                    ELSE IF ~SCCAMoreRestrictiveThanB(x.tc.Default, x.tc.MaxAllowed)
                         THEN Ret(m.x, PolicyViolation)
                    ELSE m

\* v is what the validation returned.
ensurePreRequisites_role(v) ==
    IF v.err # NoErr THEN v ELSE ensurePipelinesSCClusterRole(v.x)

\* i is what EnsureRBACInstallerSet returned.
ensurePreRequisites_validate(i) ==
    IF i.err # NoErr THEN i ELSE ensurePreRequisites_role(ValidateSCCConfig(i.x))

\* ensurePreRequisites: installer set, validation, shared ClusterRole.
ensurePreRequisites(x) == ensurePreRequisites_validate(EnsureRBACInstallerSet(x))

---------------------------------------------------------------------------
(* Namespace selection.                                                    *)

\* A test that looks for a missing grant binding only, not at the kind of
\* role it is bound to.
NeedsRBACAtVersion_MissingOnly(x, n) ==
    \/ x.c.ns[n].scc # ""
    \/ x.c.sccRB[n] = Absent

\* needsRBAC for a namespace whose label equals r.version, given the Get of
\* its grant binding succeeded.
NeedsRBACAtVersion(x, n) ==
    \/ x.c.ns[n].scc # ""
    \/ x.c.sccRB[n] = Absent
    \/ x.c.sccRB[n].RoleRef.Kind # "ClusterRole"

\* A test that skips the reserved names only.
ignoreNamespace_RegexOnly(x, n) == nsRegexMatch(n)

\* The two tests that make getNamespacesToBeReconciled skip a namespace:
\* the name matches nsRegex, or the deletion timestamp is set.
ignoreNamespace(x, n) == nsRegexMatch(n) \/ x.c.ns[n].phase = "Terminating"

\* The loop of getNamespacesToBeReconciled over the listed namespaces.
RECURSIVE selectLoop(_, _, _, _)
selectLoop(x, items, rbacNs, caNs) ==
    IF items = <<>> THEN [x |-> x, err |-> NoErr, RBACNamespaces |-> rbacNs, CANamespaces |-> caNs]
    ELSE LET n == Head(items)
             ca == IF x.c.ns[n].ca # version THEN Append(caNs, n) ELSE caNs
         IN IF ignoreNamespace(x, n)
            THEN selectLoop(x, Tail(items), rbacNs, caNs)
            ELSE IF x.c.ns[n].rbac # version
            THEN selectLoop(x, Tail(items), Append(rbacNs, n), ca)
            ELSE IF Faulty(x)
            THEN [x |-> Issue(x), err |-> InternalError,
                  RBACNamespaces |-> <<>>, CANamespaces |-> <<>>]
            ELSE selectLoop(Issue(x), Tail(items),
                            IF NeedsRBACAtVersion(x, n) THEN Append(rbacNs, n) ELSE rbacNs, ca)

\* getNamespacesToBeReconciled: List of all namespaces, then the loop.  The
\* namespace objects of the list (x.nsl) are what the pass works with.
getNamespacesToBeReconciled(x) ==
    IF Faulty(x)
    THEN [x |-> Issue(x), err |-> InternalError, RBACNamespaces |-> <<>>, CANamespaces |-> <<>>]
    ELSE selectLoop([Issue(x) EXCEPT !.nsl = x.c.ns],
                    ListNamespaces(x.c, FALSE), <<>>, <<>>)

\* patchNamespaceLabel: Patch of the one label.
patchNamespaceLabel(x, ns) ==
    IF Faulty(x) THEN Ret([Issue(x) EXCEPT !.patched = @ \cup {ns}], InternalError)
    ELSE Ret(Log([Issue(x) EXCEPT !.c.ns[ns].rbac = version, !.patched = @ \cup {ns}],
                 "Patch", "Namespace", ns), NoErr)

patchNamespaceTrustedConfigLabel(x, ns) ==
    IF Faulty(x) THEN Ret(Issue(x), InternalError)
    ELSE Ret(Log([Issue(x) EXCEPT !.c.ns[ns].ca = version], "Patch", "NamespaceCA", ns), NoErr)

---------------------------------------------------------------------------
(* Trust bundles.                                                          *)

\* A variant that leaves a config map it finds as it is.
ensureCABundleCM_KeepRefs(x, ns, name) ==
    IF Faulty(x) THEN Ret(Issue(x), InternalError)
    ELSE LET x1 == Issue(x)
         IN IF x.c.cm[ns][name] # Absent THEN Ret(x1, NoErr)
            ELSE IF Faulty(x1) THEN Ret(Issue(x1), InternalError)
            ELSE Ret(Log([Issue(x1) EXCEPT !.c.cm[ns][name] = [OwnerReferences |-> <<>>]],
                         "Create", name, ns), NoErr)

\* One config map of ensureCABundles: Get; Create when not found; when
\* found, the owner references are removed with an Update.
ensureCABundleCM(x, ns, name) ==
    IF Faulty(x) THEN Ret(Issue(x), InternalError)
    ELSE LET x1 == Issue(x)
             verb == IF x.c.cm[ns][name] = Absent THEN "Create" ELSE "Update"
         IN IF Faulty(x1) THEN Ret(Issue(x1), InternalError)
            \* somebody else created the config map after the Get: Create
            \* answers already-exists, which the create helpers drop
            ELSE IF x.c.cm[ns][name] = Absent /\ <<ns, name>> \in x.raceCM
            THEN Ret([Issue(x1) EXCEPT !.c.cm[ns][name] = [OwnerReferences |-> <<>>]], NoErr)
            ELSE Ret(Log([Issue(x1) EXCEPT !.c.cm[ns][name] = [OwnerReferences |-> <<>>]],
                         verb, name, ns), NoErr)

ensureCABundles(x, ns) ==
    LET t == ensureCABundleCM(x, ns, "config-trusted-cabundle")
    IN IF t.err # NoErr THEN t ELSE ensureCABundleCM(t.x, ns, "config-service-cabundle")

\* The trust-bundle label is patched whatever ensureCABundles returned.
RECURSIVE caLoop_StampAlways(_, _)
caLoop_StampAlways(x, items) ==
    IF items = <<>> THEN x
    ELSE caLoop_StampAlways(
             patchNamespaceTrustedConfigLabel(ensureCABundles(x, Head(items)).x,
                                              Head(items)).x,
             Tail(items))

\* Step 5 of createResources: the loop over CANamespaces.
RECURSIVE caLoop(_, _)
caLoop(x, items) ==
    IF items = <<>> THEN x
    ELSE LET e == ensureCABundles(x, Head(items))
         IN IF e.err # NoErr THEN caLoop(e.x, Tail(items))
            ELSE caLoop(patchNamespaceTrustedConfigLabel(e.x, Head(items)).x, Tail(items))

---------------------------------------------------------------------------
(* createResources: one reconciliation pass.                               *)

RECURSIVE rbacLoop(_, _, _, _)

\* A loop that stops at the first namespace whose processRBAC fails.
rbacLoop_next_Abort(p, items, namespacesToUpdate, failed) ==
    IF p.err # NoErr
    THEN [x |-> p.x, namespacesToUpdate |-> namespacesToUpdate,
          failed |-> failed \cup {<<Head(items), p.err>>}]
    ELSE rbacLoop(p.x, Tail(items),
                  Append(namespacesToUpdate,
                         [ServiceAccount |-> p.sa, Namespace |-> Head(items)]),
                  failed)

\* p is what processRBAC returned for the head of items: a namespace whose
\* processRBAC fails is logged and skipped, the others are collected in
\* namespacesToUpdate.
rbacLoop_next(p, items, namespacesToUpdate, failed) ==
    IF p.err # NoErr
    THEN rbacLoop(p.x, Tail(items), namespacesToUpdate,
                  failed \cup {<<Head(items), p.err>>})
    ELSE rbacLoop(p.x, Tail(items),
                  Append(namespacesToUpdate,
                         [ServiceAccount |-> p.sa, Namespace |-> Head(items)]),
                  failed)

\* The loop over RBACNamespaces.
rbacLoop(x, items, namespacesToUpdate, failed) ==
    IF items = <<>>
    THEN [x |-> x, namespacesToUpdate |-> namespacesToUpdate, failed |-> failed]
    ELSE rbacLoop_next(processRBAC(x, Head(items)), items, namespacesToUpdate, failed)

\* The loop that patches the label of every namespace of namespacesToUpdate;
\* a failed patch is logged and the loop goes on.
RECURSIVE patchLoop(_, _)
patchLoop(x, items) ==
    IF items = <<>> THEN x
    ELSE patchLoop(patchNamespaceLabel(x, Head(items).Namespace).x, Tail(items))

\* What a pass reports: the context after it, the error it returns, and
\* what it selected and did on the way.
Outcome(x, err, sel, loop, stage) ==
    [x |-> x, err |-> err,
     RBACNamespaces |-> sel.RBACNamespaces, CANamespaces |-> sel.CANamespaces,
     namespacesToUpdate |-> loop.namespacesToUpdate, failed |-> loop.failed,
     stage |-> stage]

NoSelection == [RBACNamespaces |-> <<>>, CANamespaces |-> <<>>]

NoLoop == [namespacesToUpdate |-> <<>>, failed |-> {}]

\* Step 5, then the return of createResources.
FinishWithCA(x, createCABundles, sel, loop, stage) ==
    Outcome(IF createCABundles THEN caLoop(x, sel.CANamespaces) ELSE x,
            NoErr, sel, loop, stage)

\* A pass that patches the labels whatever handleClusterRoleBinding
\* returned.
rbacStep_labels_Always(h, createCABundles, sel, loop) ==
    FinishWithCA(patchLoop(h.x, loop.namespacesToUpdate),
                 createCABundles, sel, loop, "aggregated")

\* A pass that drops the error of handleClusterRoleBinding: the labels are
\* not patched and the pass goes on to the trust bundles and returns nil.
rbacStep_labels_Swallow(h, createCABundles, sel, loop) ==
    IF h.err # NoErr THEN FinishWithCA(h.x, createCABundles, sel, loop, "aggregate failed")
    ELSE FinishWithCA(patchLoop(h.x, loop.namespacesToUpdate),
                      createCABundles, sel, loop, "aggregated")

\* h is what handleClusterRoleBinding returned: its error is the error of
\* the pass; otherwise the labels are patched.
rbacStep_labels(h, createCABundles, sel, loop) ==
    IF h.err # NoErr THEN Outcome(h.x, h.err, sel, loop, "aggregate failed")
    ELSE FinishWithCA(patchLoop(h.x, loop.namespacesToUpdate),
                      createCABundles, sel, loop, "aggregated")

\* loop is what the per-namespace loop returned: the cluster role binding
\* is updated when a namespace went through.
rbacStep_aggregate(loop, createCABundles, sel) ==
    IF Len(loop.namespacesToUpdate) > 0
    THEN rbacStep_labels(handleClusterRoleBinding(loop.x, loop.namespacesToUpdate),
                         createCABundles, sel, loop)
    ELSE FinishWithCA(loop.x, createCABundles, sel, loop, "none to aggregate")

\* r is what removeAndUpdateNSFromCI returned.
rbacStep_loop(r, createCABundles, sel) ==
    IF r.err # NoErr THEN Outcome(r.x, r.err, sel, NoLoop, "prune failed")
    ELSE rbacStep_aggregate(rbacLoop(r.x, sel.RBACNamespaces, <<>>, {}), createCABundles, sel)

\* Step 4 of createResources: prune, per-namespace loop, bulk update of the
\* cluster role binding, labels.
rbacStep(x, createCABundles, sel) ==
    rbacStep_loop(removeAndUpdateNSFromCI(x), createCABundles, sel)

\* sel is what getNamespacesToBeReconciled returned.
createResources_selected(sel, createCABundles, createRBACResource) ==
    IF sel.err # NoErr
    THEN Outcome(sel.x, sel.err, NoSelection, NoLoop, "selection failed")
    ELSE IF Len(sel.RBACNamespaces) = 0 /\ Len(sel.CANamespaces) = 0
    THEN Outcome(sel.x, NoErr, sel, NoLoop, "nothing selected")
    ELSE IF createRBACResource /\ Len(sel.RBACNamespaces) # 0
    THEN rbacStep(sel.x, createCABundles, sel)
    ELSE FinishWithCA(sel.x, createCABundles, sel, NoLoop, "no rbac work")

\* pre is what ensurePreRequisites returned, or no error with RBAC off.
createResources_select(pre, createCABundles, createRBACResource) ==
    IF pre.err # NoErr
    THEN Outcome(pre.x, pre.err, NoSelection, NoLoop, "prerequisites failed")
    ELSE createResources_selected(getNamespacesToBeReconciled(pre.x),
                                  createCABundles, createRBACResource)

\* A pass that runs ensurePreRequisites whatever createRbacResource says.
createResources_steps_AlwaysPrerequisites(x, createCABundles, createRBACResource) ==
    IF ~createCABundles /\ ~createRBACResource
    THEN Outcome(x, NoErr, NoSelection, NoLoop, "disabled")
    ELSE createResources_select(ensurePreRequisites(x), createCABundles, createRBACResource)

\* Steps 2 to 5 of createResources.
createResources_steps(x, createCABundles, createRBACResource) ==
    IF ~createCABundles /\ ~createRBACResource
    THEN Outcome(x, NoErr, NoSelection, NoLoop, "disabled")
    ELSE createResources_select(IF createRBACResource THEN ensurePreRequisites(x)
                                ELSE Ret(x, NoErr),
                                createCABundles, createRBACResource)

\* createResources: step 1 reads the two feature flags.
createResources(x) ==
    createResources_steps(x, ~ParamIsFalse(x.tc, trustedCABundleParamName),
                          ~ParamIsFalse(x.tc, rbacParamName))

---------------------------------------------------------------------------
(* The state machine.                                                      *)

\* The context a pass starts with.
Ctx(c, tc, inf, F) ==
    [c |-> c, tc |-> tc, inf |-> inf, nsl |-> c.ns, k |-> 0, F |-> F, log |-> <<>>,
     patched |-> {}, race |-> {}, raceNil |-> FALSE, raceCM |-> {}]

FreshNamespace == [phase |-> "Active", scc |-> "", rbac |-> "", ca |-> ""]

NoConfigMaps ==
    [name \in {"config-trusted-cabundle", "config-service-cabundle"} |-> Absent]

\* A cluster the operator has just been installed or upgraded on: nothing of
\* this release exists yet; the reserved namespace carries an annotation and
\* the label of the release before, which the reconciler must not act on.
InitCluster ==
    [ns |-> [n \in Namespaces |->
                IF nsRegexMatch(n)
                THEN [phase |-> "Active", scc |-> "privileged",
                      rbac |-> PreviousVersion, ca |-> PreviousVersion]
                ELSE FreshNamespace],
     sa |-> [n \in Namespaces |-> Absent],
     role |-> [n \in Namespaces |-> Absent],
     sccRB |-> [n \in Namespaces |-> Absent],
     editRB |-> [n \in Namespaces |-> Absent],
     cm |-> [n \in Namespaces |-> NoConfigMaps],
     sccClusterRole |-> Absent,
     ciClusterRole |-> Absent,
     ciCRB |-> Absent,
     iset |-> "",
     isetOld |-> TRUE,
     events |-> {}]

\* TektonConfig after defaulting.
InitConfig ==
    [Default |-> "nonroot", MaxAllowed |-> "",
     Params |-> <<[Name |-> rbacParamName, Value |-> "true"],
                  [Name |-> legacyPipelineRbacParamName, Value |-> "true"],
                  [Name |-> trustedCABundleParamName, Value |-> "true"]>>]

NoPass == [op |-> "none"]

Init ==
    /\ cluster = InitCluster
    /\ tektonConfig = InitConfig
    /\ informer = Observe(InitCluster)
    /\ last = NoPass
    /\ faults = 0

\* o is what createResources returned: the cluster is as the pass left it,
\* the informers have caught up with it when the next action starts, and
\* what the pass did is recorded.
PassDone(o, F) ==
    /\ cluster' = o.x.c
    /\ informer' = Observe(o.x.c)
    /\ last' = [op |-> "pass", pre |-> cluster, F |-> F, err |-> o.err,
                RBACNamespaces |-> o.RBACNamespaces, CANamespaces |-> o.CANamespaces,
                namespacesToUpdate |-> o.namespacesToUpdate, failed |-> o.failed,
                stage |-> o.stage, patched |-> o.x.patched,
                log |-> o.x.log, calls |-> o.x.k]
    /\ UNCHANGED tektonConfig

\* One pass in which the API calls numbered in F fail.
Pass(F) == PassDone(createResources(Ctx(cluster, tektonConfig, informer, F)), F)

\* A pass without API faults.
Reconcile == Pass({}) /\ UNCHANGED faults

\* The pass the reconciler would run now, without API faults.
NextPass == createResources(Ctx(cluster, tektonConfig, informer, {}))

\* The calls of a pass of so many calls at which a fault is tried.
FaultPoints(calls) == 1..(IF calls < MaxCall THEN calls ELSE MaxCall)

\* A pass in which one API call fails, or every call from one on (the
\* context of the pass is cancelled).
ReconcileWithFault ==
    /\ faults < MaxFaults
    /\ faults' = faults + 1
    /\ \E k \in FaultPoints(NextPass.x.k) : \E cancelled \in BOOLEAN :
           Pass(IF cancelled THEN k..(k + 3 * MaxCall) ELSE {k})

\* What is outside the reconciler changes the cluster or the configuration.
Outside(c, tc) ==
    /\ cluster' = c
    /\ tektonConfig' = tc
    /\ informer' = Observe(c)
    /\ last' = NoPass
    /\ UNCHANGED faults

ActiveApp(n) == ~nsRegexMatch(n) /\ cluster.ns[n].phase = "Active"

\* The administrator sets or clears the ceiling.
SetMaxAllowed ==
    \E m \in {"", "restricted", "nonroot", "privileged", UnknownSCC} :
        /\ m # tektonConfig.MaxAllowed
        /\ Outside(cluster, [tektonConfig EXCEPT !.MaxAllowed = m])

\* The owner of a namespace sets or removes its SCC annotation.
SetAnnotation ==
    \E n \in Namespaces : \E s \in {"", "restricted", "privileged"} :
        /\ ActiveApp(n)
        /\ s # cluster.ns[n].scc
        /\ Outside([cluster EXCEPT !.ns[n].scc = s], tektonConfig)

\* The administrator changes the default SCC.
SetDefault ==
    \E d \in {"restricted", "nonroot", UnknownSCC} :
        /\ d # tektonConfig.Default
        /\ Outside(cluster, [tektonConfig EXCEPT !.Default = d])

Next == Reconcile \/ SetMaxAllowed \/ SetAnnotation \/ SetDefault

Spec == Init /\ [][Next]_vars

\* A namespace is deleted: it carries a deletion timestamp until its
\* content is gone, and then is gone itself with all it held.
DeleteNamespace ==
    \E n \in Namespaces :
        /\ ActiveApp(n)
        /\ Outside([cluster EXCEPT !.ns[n].phase = "Terminating"], tektonConfig)

FinalizeNamespace ==
    \E n \in Namespaces :
        /\ cluster.ns[n].phase = "Terminating"
        /\ Outside([cluster EXCEPT !.ns[n] = [phase |-> "Gone", scc |-> "", rbac |-> "", ca |-> ""],
                                   !.sa[n] = Absent, !.role[n] = Absent,
                                   !.sccRB[n] = Absent, !.editRB[n] = Absent,
                                   !.cm[n] = NoConfigMaps],
                   tektonConfig)

\* Somebody removes the rbac-version label of a namespace.
DropVersionLabel ==
    \E n \in Namespaces :
        /\ ActiveApp(n)
        /\ cluster.ns[n].rbac = version
        /\ Outside([cluster EXCEPT !.ns[n].rbac = ""], tektonConfig)

SetParam(tc, name, value) ==
    [tc EXCEPT !.Params = [i \in 1..Len(tc.Params) |->
                              IF tc.Params[i].Name = name
                              THEN [Name |-> name, Value |-> value]
                              ELSE tc.Params[i]]]

\* The administrator switches the legacy binding on or off.
SetLegacy ==
    \E v \in {"true", "false"} :
        /\ isLegacyRBACEnabled(tektonConfig) # (v = "true")
        /\ Outside(cluster, SetParam(tektonConfig, legacyPipelineRbacParamName, v))

\* Namespaces come and go, labels are lost, the legacy toggle changes.
NextMembers ==
    Reconcile \/ DeleteNamespace \/ FinalizeNamespace \/ DropVersionLabel \/ SetLegacy
        \/ SetAnnotation

SpecMembers == Init /\ [][NextMembers]_vars

\* The same with passes that meet API faults.
NextFaults == Reconcile \/ ReconcileWithFault \/ SetAnnotation

SpecFaults == Init /\ [][NextFaults]_vars

\* API faults while the administrator moves the ceiling.
NextCeilingFaults == Reconcile \/ ReconcileWithFault \/ SetAnnotation \/ SetMaxAllowed

SpecCeilingFaults == Init /\ [][NextCeilingFaults]_vars

---------------------------------------------------------------------------
(* What the claims speak about.                                            *)

SeqSet(q) == {q[i] : i \in 1..Len(q)}

\* Namespaces of the pass recorded in l: selected for RBAC work, failed in
\* processRBAC, handed to the aggregator, run through processRBAC at all.
SelectedNs(l) == SeqSet(l.RBACNamespaces)

FailedNs(l) == {f[1] : f \in l.failed}

UpdatedNs(l) == {l.namespacesToUpdate[i].Namespace : i \in 1..Len(l.namespacesToUpdate)}

ProcessedNs(l) == FailedNs(l) \cup UpdatedNs(l)

\* Not reserved, not being deleted.
Eligible(c, n) == ~nsRegexMatch(n) /\ c.ns[n].phase = "Active"

RBACEnabled == ~ParamIsFalse(tektonConfig, rbacParamName)

\* scc exists and is less restrictive than the ceiling of tc.
BeyondCeiling(tc, scc) ==
    /\ tc.MaxAllowed \in SCCsOnCluster
    /\ scc \in SCCsOnCluster
    /\ ~SCCAMoreRestrictiveThanB(scc, tc.MaxAllowed)

\* n holds a per-namespace Role, bound to the workload identity, that grants
\* use of an SCC less restrictive than the ceiling.
GrantsBeyondCeiling(c, tc, n) ==
    /\ c.role[n] # Absent
    /\ c.sccRB[n] # Absent
    /\ c.sccRB[n].RoleRef = [Kind |-> "Role", Name |-> pipelinesSCCRole]
    /\ hasSubject(c.sccRB[n].Subjects, SASubject(n))
    /\ BeyondCeiling(tc, c.role[n].ResourceNames[1])

---------------------------------------------------------------------------
(* C1 *)

\* C1 (ceiling safety): whatever passes, ceiling changes and annotation
\* changes came before, once a pass has run under the current ceiling no
\* namespace holds a per-namespace Role pipelines-scc-role, bound to the
\* workload identity, that grants use of an SCC less restrictive than the
\* ceiling.  The code checks the ceiling only before it writes the Role and
\* never takes a Role or binding back: a Role written under a laxer ceiling
\* outlives every later pass.  Stated for the states a pass leaves when it
\* returns no error, where the reconciler has seen the current ceiling.
C1_CeilingSafety ==
    (last.op = "pass" /\ last.err = NoErr) =>
        \A n \in Namespaces : ~GrantsBeyondCeiling(cluster, tektonConfig, n)

---------------------------------------------------------------------------
(* C2 *)

\* C2: a namespace whose annotation names an existing SCC less restrictive
\* than the ceiling is selected and run through processRBAC by every pass
\* that gets as far as the per-namespace loop; processRBAC fails for it --
\* with the policy violation, unless an API call of an earlier step failed
\* first -- the pass leaves its rbac-version label as it was, and the next
\* pass selects it again.
C2_ViolatorFailsAndIsRetried ==
    last.op = "pass" =>
        \A n \in Namespaces :
            (Eligible(last.pre, n) /\ BeyondCeiling(tektonConfig, last.pre.ns[n].scc)) =>
                /\ last.err = NoErr /\ RBACEnabled => n \in ProcessedNs(last)
                /\ n \in ProcessedNs(last) =>
                      /\ n \in FailedNs(last)
                      /\ n \notin UpdatedNs(last)
                      /\ last.F = {} => <<n, PolicyViolation>> \in last.failed
                      /\ cluster.ns[n].rbac = last.pre.ns[n].rbac
                      /\ n \in SeqSet(NextPass.RBACNamespaces)

\* A pass has run processRBAC on a namespace that asks for more than the
\* ceiling allows.
C2_Witness ==
    /\ last.op = "pass"
    /\ \E n \in ProcessedNs(last) :
          /\ BeyondCeiling(tektonConfig, last.pre.ns[n].scc)
          /\ last.pre.ns[n].rbac = version

---------------------------------------------------------------------------
(* C3 *)

\* The ceiling is set and more restrictive than the default, or one of the
\* two names is not an SCC of the cluster.
InvalidSCCConfig(tc) ==
    \/ tc.Default \notin SCCsOnCluster
    \/ /\ tc.MaxAllowed # ""
       /\ \/ tc.MaxAllowed \notin SCCsOnCluster
          \/ ~SCCAMoreRestrictiveThanB(tc.Default, tc.MaxAllowed)

Writes(l, verb, kind) == {i \in 1..Len(l.log) : l.log[i][1] = verb /\ l.log[i][2] = kind}

\* C3: with RBAC reconciliation on, a pass under an invalid SCC
\* configuration (ceiling more restrictive than the default, or a named SCC
\* missing on the cluster) returns an error to the caller -- NotFound or the
\* policy violation once the installer set exists -- and in that pass no
\* namespace is run through processRBAC, the shared ClusterRole
\* pipelines-scc-clusterrole is not written and no version label is stamped.
C3_InvalidCeilingFailsPass ==
    (last.op = "pass" /\ RBACEnabled /\ InvalidSCCConfig(tektonConfig)) =>
        /\ last.err # NoErr
        /\ last.pre.iset = version => last.err \in {NotFoundErr, PolicyViolation}
        /\ ProcessedNs(last) = {}
        /\ cluster.sccClusterRole = last.pre.sccClusterRole
        /\ \A i \in 1..Len(last.log) : last.log[i][2] # "ClusterRole" /\ last.log[i][1] # "Patch"
        /\ \A n \in Namespaces :
              /\ cluster.ns[n].rbac = version => last.pre.ns[n].rbac = version
              /\ cluster.ns[n].ca = last.pre.ns[n].ca

\* A pass has met a ceiling more restrictive than the default while the
\* installer set existed and namespaces were waiting for work.
C3_Witness ==
    /\ last.op = "pass"
    /\ last.pre.iset = version
    /\ tektonConfig.MaxAllowed \in SCCsOnCluster
    /\ ~SCCAMoreRestrictiveThanB(tektonConfig.Default, tektonConfig.MaxAllowed)
    /\ \E n \in Namespaces : Eligible(cluster, n) /\ cluster.ns[n].scc # ""

---------------------------------------------------------------------------
(* C4 *)

\* The pass recorded in l got as far as the per-namespace loop.
LoopRan(l) == l.stage \in {"aggregated", "none to aggregate", "aggregate failed"}

\* C4 (failure isolation): in a pass that reaches the per-namespace loop,
\* whatever subset of the selected namespaces fails in processRBAC, every
\* selected namespace is run through processRBAC; exactly those that did not
\* fail are handed, with their identity pipeline, to the aggregator; when the
\* aggregator succeeds each of them is a subject of the cluster role binding
\* and has its label patched (the label equals the release unless that Patch
\* call itself returns an error); and the pass returns an error only when the
\* aggregator fails, never because of the failed namespaces.
C4_FailureIsolation ==
    (last.op = "pass" /\ LoopRan(last)) =>
        /\ ProcessedNs(last) = SelectedNs(last)
        /\ UpdatedNs(last) = SelectedNs(last) \ FailedNs(last)
        /\ \A i \in 1..Len(last.namespacesToUpdate) :
              last.namespacesToUpdate[i].ServiceAccount =
                  [Name |-> pipelineSA, Namespace |-> last.namespacesToUpdate[i].Namespace]
        /\ (UpdatedNs(last) = {}) = (last.stage = "none to aggregate")
        /\ last.stage # "aggregate failed" => last.err = NoErr
        /\ last.stage = "aggregated" =>
              \A n \in UpdatedNs(last) :
                  /\ hasSubject(cluster.ciCRB.Subjects, SASubject(n))
                  /\ n \in last.patched
                  /\ (\E i \in Writes(last, "Patch", "Namespace") : last.log[i][3] = n)
                        => cluster.ns[n].rbac = version
                  /\ last.F = {} => cluster.ns[n].rbac = version

\* A pass in which one namespace failed and another went through to the
\* aggregator and got its label.
C4_Witness ==
    /\ last.op = "pass"
    /\ last.stage = "aggregated"
    /\ FailedNs(last) # {}
    /\ \E n \in UpdatedNs(last) : cluster.ns[n].rbac = version /\ last.pre.ns[n].rbac # version

---------------------------------------------------------------------------
(* C5 *)

\* The pass recorded in l returned no error and logged no failure of a
\* namespace.
CompletedWithoutError(l) == l.op = "pass" /\ l.err = NoErr /\ l.failed = {}

ClusterRoleRef == [Kind |-> "ClusterRole", Name |-> pipelinesSCCClusterRole]

NsRoleRef == [Kind |-> "Role", Name |-> pipelinesSCCRole]

\* C5: after a pass that completes without error, every eligible namespace
\* without SCC annotation has its grant binding pipelines-scc-rolebinding
\* bound to ClusterRole/pipelines-scc-clusterrole and holds no per-namespace
\* Role pipelines-scc-role.
C5_DefaultGrant ==
    (CompletedWithoutError(last) /\ RBACEnabled) =>
        \A n \in Namespaces :
            (Eligible(cluster, n) /\ cluster.ns[n].scc = "") =>
                /\ cluster.sccRB[n] # Absent
                /\ cluster.sccRB[n].RoleRef = ClusterRoleRef
                /\ cluster.role[n] = Absent

---------------------------------------------------------------------------
(* C6 *)

\* scc is an SCC of the cluster and not less restrictive than the ceiling
\* of tc, when tc has one.
WithinCeiling(tc, scc) ==
    /\ scc \in SCCsOnCluster
    /\ tc.MaxAllowed # "" => SCCAMoreRestrictiveThanB(scc, tc.MaxAllowed)

\* C6: after a pass that completes without error, every eligible namespace
\* whose annotation requests an SCC P of the cluster within the ceiling
\* holds a Role pipelines-scc-role that grants exactly the verb use on
\* exactly P, and its grant binding pipelines-scc-rolebinding is bound to
\* Role/pipelines-scc-role with the workload identity as a subject.
C6_RequestedGrant ==
    (CompletedWithoutError(last) /\ RBACEnabled) =>
        \A n \in Namespaces :
            (Eligible(cluster, n) /\ cluster.ns[n].scc # ""
                /\ WithinCeiling(tektonConfig, cluster.ns[n].scc)) =>
                /\ cluster.role[n] # Absent
                /\ cluster.role[n].ResourceNames = <<cluster.ns[n].scc>>
                /\ cluster.role[n].Verbs = <<"use">>
                /\ cluster.sccRB[n] # Absent
                /\ cluster.sccRB[n].RoleRef = NsRoleRef
                /\ hasSubject(cluster.sccRB[n].Subjects, SASubject(n))

\* A pass under a ceiling has written the Role of a namespace whose
\* annotation asks for an SCC within the ceiling, and completed.
C6_Witness ==
    /\ CompletedWithoutError(last)
    /\ tektonConfig.MaxAllowed # ""
    /\ \E n \in UpdatedNs(last) :
          /\ cluster.ns[n].scc # ""
          /\ WithinCeiling(tektonConfig, cluster.ns[n].scc)
          /\ last.pre.role[n] = Absent
          /\ last.pre.sccRB[n] # Absent

---------------------------------------------------------------------------
(* C7 *)

\* The kinds of object the RBAC reconciliation keeps.
RBACKinds ==
    {"ServiceAccount", "Role", "ClusterRole", pipelinesSCCRoleBinding, PipelineRoleBinding,
     "ClusterRoleBinding"}

\* The Create, Update and Delete calls of the log on objects of these kinds.
RBACWrites(log) ==
    {i \in 1..Len(log) : log[i][1] \in {"Create", "Update", "Delete"} /\ log[i][2] \in RBACKinds}

\* C7 (full idempotence): when a pass has completed without error and
\* nothing outside has changed since, a second pass issues no Create, Update
\* or Delete call on a workload identity, a per-namespace Role, the shared
\* ClusterRole, a grant binding, a legacy binding or the cluster role
\* binding.
C7_SecondPassWritesNothing ==
    (CompletedWithoutError(last) /\ RBACEnabled) =>
        /\ NextPass.err = NoErr
        /\ RBACWrites(NextPass.x.log) = {}

---------------------------------------------------------------------------
(* C8 *)

CRBSubjects(c) == IF c.ciCRB = Absent THEN <<>> ELSE c.ciCRB.Subjects

\* n exists and carries the rbac-version label of this release.
AtVersion(c, n) == c.ns[n].phase # "Gone" /\ c.ns[n].rbac = version

\* C8: when the identities of two namespaces a and b are subjects of the
\* cluster role binding, a carries the label of this release and b is gone
\* or has lost its label, one pass that completes without error leaves a's
\* subject in place and removes b's -- unless that very pass has reconciled
\* b again and labelled it -- also when the pass finds no namespace that
\* needs RBAC work.
C8_MemberPrunedInOnePass ==
    (CompletedWithoutError(last) /\ RBACEnabled) =>
        \A a, b \in Namespaces :
            (/\ a # b
             /\ hasSubject(CRBSubjects(last.pre), SASubject(a))
             /\ hasSubject(CRBSubjects(last.pre), SASubject(b))
             /\ AtVersion(last.pre, a) /\ Eligible(last.pre, a)
             /\ ~AtVersion(last.pre, b)) =>
                /\ hasSubject(CRBSubjects(cluster), SASubject(a))
                /\ ~AtVersion(cluster, b) => ~hasSubject(CRBSubjects(cluster), SASubject(b))

---------------------------------------------------------------------------
(* C9 *)

\* C9: after the first pass that completes without error under the current
\* setting of the legacy toggle, with the toggle off no eligible namespace
\* holds the binding openshift-pipelines-edit -- the namespaces already
\* labelled with this release and correctly bound included -- and with the
\* toggle on every eligible namespace holds it with the workload identity as
\* its only subject.
C9_LegacyToggleFollowed ==
    (CompletedWithoutError(last) /\ RBACEnabled) =>
        \A n \in Namespaces :
            Eligible(cluster, n) =>
                IF isLegacyRBACEnabled(tektonConfig)
                THEN /\ cluster.editRB[n] # Absent
                     /\ cluster.editRB[n].Subjects = <<SASubject(n)>>
                ELSE cluster.editRB[n] = Absent

---------------------------------------------------------------------------
(* C10 *)

\* A pass has completed without error and the next pass would select no
\* namespace and leave the cluster as it is.
Quiescent ==
    /\ CompletedWithoutError(last)
    /\ NextPass.err = NoErr
    /\ NextPass.RBACNamespaces = <<>>
    /\ NextPass.x.c = cluster

\* C10 (aggregate consistency): at quiescence the subjects of the cluster
\* role binding are exactly the workload identities of the namespaces that
\* carry the rbac-version label of this release.
C10_AggregateConsistency ==
    (Quiescent /\ RBACEnabled) =>
        SubjectSet(CRBSubjects(cluster)) = {SASubject(n) : n \in {m \in Namespaces : AtVersion(cluster, m)}}

---------------------------------------------------------------------------
(* C11 *)

\* longest owner-reference list somebody outside leaves on a binding
MaxOwnerRefs == 2

\* The reference to the installer set of the release before: a foreign
\* owner for this release.
ForeignRef == InstallerSetRef(PreviousVersion)

RECURSIVE SeqsUpTo(_, _)
SeqsUpTo(S, n) ==
    IF n = 0 THEN {<<>>}
    ELSE SeqsUpTo(S, n - 1) \cup {Append(q, e) : q \in SeqsUpTo(S, n - 1), e \in S}

\* The lists somebody outside leaves: no reference twice (the API server
\* stores no duplicate owner references).
OwnerRefLists ==
    {q \in SeqsUpTo({rOwnerRef, ForeignRef}, MaxOwnerRefs) :
        \A i, j \in 1..Len(q) : q[i] = q[j] => i = j}

\* Somebody outside (an older release, an administrator) leaves another
\* owner-reference list on a grant binding, a legacy binding or the cluster
\* role binding.
SetOwnerReferences ==
    \E refs \in OwnerRefLists :
        \/ \E n \in Namespaces :
              /\ ActiveApp(n)
              /\ cluster.sccRB[n] # Absent
              /\ cluster.sccRB[n].OwnerReferences # refs
              /\ Outside([cluster EXCEPT !.sccRB[n].OwnerReferences = refs], tektonConfig)
        \/ \E n \in Namespaces :
              /\ ActiveApp(n)
              /\ cluster.editRB[n] # Absent
              /\ cluster.editRB[n].OwnerReferences # refs
              /\ Outside([cluster EXCEPT !.editRB[n].OwnerReferences = refs], tektonConfig)
        \/ /\ cluster.ciCRB # Absent
           /\ cluster.ciCRB.OwnerReferences # refs
           /\ Outside([cluster EXCEPT !.ciCRB.OwnerReferences = refs], tektonConfig)

\* Owner references change behind the reconciler's back, version labels
\* are lost.
NextOwners == Reconcile \/ SetOwnerReferences \/ DropVersionLabel

SpecOwners == Init /\ [][NextOwners]_vars

\* How often the reference ref occurs in the list refs.
Occurrences(refs, ref) == Cardinality({i \in 1..Len(refs) : refs[i] = ref})

\* C11 (owner-reference repair): after a pass that completes without error,
\* the grant binding and -- with the legacy toggle on -- the legacy binding
\* of every namespace that went through processRBAC, and the cluster role
\* binding when the aggregator ran, hold the reference to the installer set
\* of this release exactly once in their persisted owner-reference list,
\* whatever the list was before the pass.
C11_OwnerRefExactlyOnce ==
    CompletedWithoutError(last) =>
        /\ \A n \in UpdatedNs(last) :
              /\ Occurrences(cluster.sccRB[n].OwnerReferences, rOwnerRef) = 1
              /\ isLegacyRBACEnabled(tektonConfig) =>
                    Occurrences(cluster.editRB[n].OwnerReferences, rOwnerRef) = 1
        /\ last.stage = "aggregated" =>
              Occurrences(cluster.ciCRB.OwnerReferences, rOwnerRef) = 1

---------------------------------------------------------------------------
(* C12 *)

\* Passes with and without API faults while annotations and the legacy
\* toggle change.
NextGrants == Reconcile \/ ReconcileWithFault \/ SetAnnotation \/ SetLegacy

SpecGrants == Init /\ [][NextGrants]_vars

\* Namespace n of cluster c holds the workload identity, the grant binding
\* bound to the per-namespace Role iff its annotation is not empty and to
\* the shared ClusterRole otherwise, with the identity as a subject, and
\* the legacy binding iff the toggle of tc is on.
FullyGranted(c, tc, n) ==
    /\ c.sa[n] # Absent
    /\ c.sccRB[n] # Absent
    /\ c.sccRB[n].RoleRef = (IF c.ns[n].scc # "" THEN NsRoleRef ELSE ClusterRoleRef)
    /\ hasSubject(c.sccRB[n].Subjects, SASubject(n))
    /\ (c.editRB[n] # Absent) = isLegacyRBACEnabled(tc)

\* C12: every namespace a pass selects for RBAC work and takes through
\* the four per-namespace steps without an error ends the pass with the
\* workload identity pipeline, the grant binding (bound to the
\* per-namespace Role iff the annotation is not empty, to the shared
\* ClusterRole otherwise, the identity a subject) and a legacy binding
\* openshift-pipelines-edit that exists iff the legacy toggle is on.  A
\* selected namespace for which a step returned an error is left out: it
\* is logged as failed and stays to be retried.
C12_SelectedEndsGranted ==
    (last.op = "pass" /\ LoopRan(last)) =>
        \A n \in UpdatedNs(last) : FullyGranted(cluster, tektonConfig, n)

---------------------------------------------------------------------------
(* C13 *)

\* The namespaces whose rbac-version label the pass recorded in l set to
\* this release, by the labels and by the Patch calls of the log.
Stamped(l, c) ==
    {n \in Namespaces : c.ns[n].rbac = version /\ l.pre.ns[n].rbac # version}
        \cup {l.log[i][3] : i \in Writes(l, "Patch", "Namespace")}

---------------------------------------------------------------------------
(* C14 *)

\* C14 (eventual retry): every namespace for which a step of processRBAC
\* failed in a pass is selected for RBAC work by the next pass, and that
\* pass, met by no fault, leaves it labelled with this release and fully
\* reconciled -- also when the namespace carried the label of this release
\* already and was selected because its grant binding was missing or bound
\* to the wrong kind of role.
C14_FailedIsRetried ==
    last.op = "pass" =>
        \A n \in FailedNs(last) :
            /\ n \in SeqSet(NextPass.RBACNamespaces)
            /\ NextPass.x.c.ns[n].rbac = version
            /\ FullyGranted(NextPass.x.c, tektonConfig, n)

---------------------------------------------------------------------------
(* C15 *)

CABundlesEnabled == ~ParamIsFalse(tektonConfig, trustedCABundleParamName)

\* The two trust-bundle config maps of namespace n exist in cluster c.
HoldsCABundles(c, n) ==
    /\ c.cm[n]["config-trusted-cabundle"] # Absent
    /\ c.cm[n]["config-service-cabundle"] # Absent

\* C15 (independence of the two features): with trust-bundle reconciliation
\* on, every pass -- also one whose RBAC part fails in the validation, ends
\* with the reconcile-again signal, or fails in the pruning, the aggregator
\* or a namespace -- reconciles the trust bundles of the namespaces that
\* need it: a namespace that is not excluded and whose trust-bundle label
\* is not the release ends the pass with the two config maps and the label.
C15_TrustBundlesIndependent ==
    (last.op = "pass" /\ CABundlesEnabled) =>
        \A n \in Namespaces :
            (Eligible(last.pre, n) /\ last.pre.ns[n].ca # version) =>
                /\ HoldsCABundles(cluster, n)
                /\ cluster.ns[n].ca = version

---------------------------------------------------------------------------
(* The version gate: upgrades and a lost installer set.                    *)

\* What the release before wrote for a namespace it reconciled.
PreviousBinding(n, roleRef) ==
    [RoleRef |-> roleRef, Subjects |-> <<SASubject(n)>>, OwnerReferences |-> <<ForeignRef>>]

\* A cluster the release before has reconciled: the namespaces carry its
\* labels and hold what it wrote, its installer set is there, that of this
\* release is not.
UpgradedCluster ==
    [ns |-> [n \in Namespaces |->
                [phase |-> "Active", scc |-> IF nsRegexMatch(n) THEN "privileged" ELSE "",
                 rbac |-> PreviousVersion, ca |-> PreviousVersion]],
     sa |-> [n \in Namespaces |->
                IF nsRegexMatch(n) THEN Absent
                ELSE [OwnerReferences |-> <<tektonConfigOwnerRef>>]],
     role |-> [n \in Namespaces |-> Absent],
     sccRB |-> [n \in Namespaces |->
                   IF nsRegexMatch(n) THEN Absent ELSE PreviousBinding(n, ClusterRoleRef)],
     editRB |-> [n \in Namespaces |->
                    IF nsRegexMatch(n) THEN Absent ELSE PreviousBinding(n, EditRoleRef)],
     cm |-> [n \in Namespaces |->
                IF nsRegexMatch(n) THEN NoConfigMaps
                ELSE [name \in DOMAIN NoConfigMaps |-> [OwnerReferences |-> <<>>]]],
     sccClusterRole |-> [ResourceNames |-> <<"nonroot">>, Verbs |-> <<"use">>,
                         OwnerReferences |-> <<ForeignRef>>],
     ciClusterRole |-> [OwnerReferences |-> <<ForeignRef>>],
     ciCRB |-> [Subjects |-> [i \in 1..NumNs |-> SASubject(NamespaceItems[i])],
                OwnerReferences |-> <<ForeignRef>>],
     iset |-> PreviousVersion,
     isetOld |-> FALSE,
     events |-> {}]

\* The operator starts on a fresh cluster or on one it is upgraded on.
InitGate ==
    /\ cluster \in {InitCluster, UpgradedCluster}
    /\ tektonConfig = InitConfig
    /\ informer = Observe(cluster)
    /\ last = NoPass
    /\ faults = 0

\* The installer set of this release goes missing.
LoseInstallerSet ==
    /\ cluster.iset = version
    /\ Outside([cluster EXCEPT !.iset = ""], tektonConfig)

\* The obsolete installer set rbac-resources is back: a release from before
\* the renaming ran on the cluster for a while.
RecreateObsoleteInstallerSet ==
    /\ ~cluster.isetOld
    /\ Outside([cluster EXCEPT !.isetOld = TRUE], tektonConfig)

NextGate ==
    Reconcile \/ ReconcileWithFault \/ LoseInstallerSet \/ RecreateObsoleteInstallerSet
        \/ DeleteNamespace

SpecGate == InitGate /\ [][NextGate]_vars

---------------------------------------------------------------------------
(* C16 *)

\* n is a reserved name, or carries a deletion timestamp (or is gone) in c.
Excluded(c, n) == nsRegexMatch(n) \/ c.ns[n].phase # "Active"

\* The kinds of the log that live in no namespace.
ClusterKinds == {"ClusterRole", "ClusterRoleBinding", "TektonInstallerSet"}

\* C16 (namespace exclusion): a namespace whose name matches the reserved
\* prefixes, or that is being deleted, is in neither work list of a pass,
\* whatever its labels, annotation and bindings; the pass issues no Create,
\* Update, Delete or Patch for an object in it, leaves its identity, Role,
\* bindings and config maps as they were, and does not set its
\* rbac-version or trust-bundle label.  (The one call a pass may issue for
\* the namespace object itself is the Update by which cleanUp removes the
\* rbac-version label.)
C16_ExcludedUntouched ==
    last.op = "pass" =>
        \A n \in Namespaces :
            Excluded(last.pre, n) =>
                /\ n \notin SeqSet(last.RBACNamespaces)
                /\ n \notin SeqSet(last.CANamespaces)
                /\ n \notin ProcessedNs(last)
                /\ \A i \in 1..Len(last.log) :
                      (last.log[i][2] \notin ClusterKinds /\ last.log[i][3] = n) =>
                          last.log[i] = <<"Update", "Namespace", n>>
                /\ cluster.sa[n] = last.pre.sa[n]
                /\ cluster.role[n] = last.pre.role[n]
                /\ cluster.sccRB[n] = last.pre.sccRB[n]
                /\ cluster.editRB[n] = last.pre.editRB[n]
                /\ cluster.cm[n] = last.pre.cm[n]
                /\ cluster.ns[n].rbac \in {last.pre.ns[n].rbac, ""}
                /\ cluster.ns[n].ca = last.pre.ns[n].ca
                /\ cluster.ns[n].scc = last.pre.ns[n].scc
                /\ cluster.ns[n].phase = last.pre.ns[n].phase

\* A pass worked on a namespace while another, being deleted, carried no
\* label of this release and held no grant binding, and the reserved
\* namespace carried an annotation and the label of the release before.
C16_Witness ==
    /\ last.op = "pass"
    /\ UpdatedNs(last) # {}
    /\ \E n \in Namespaces :
          /\ last.pre.ns[n].phase = "Terminating"
          /\ last.pre.ns[n].rbac # version
          /\ last.pre.ns[n].ca # version
          /\ last.pre.sccRB[n] = Absent
    /\ \E n \in Namespaces :
          /\ nsRegexMatch(n)
          /\ last.pre.ns[n].scc # ""
          /\ last.pre.ns[n].rbac # version

---------------------------------------------------------------------------
(* C17 *)

\* The pass recorded in l has built its two work lists.
SelectionDone(l) == l.stage \notin {"disabled", "prerequisites failed", "selection failed"}

\* C17 (RBAC selection predicate): in a pass that builds its work lists, a
\* namespace that is not excluded is in the RBAC work list if and only if
\* (a) its SCC annotation is not empty, or (b) its rbac-version label is not
\* the release, or (c) its label is the release and its grant binding
\* pipelines-scc-rolebinding is missing or bound to a role that is not a
\* ClusterRole; it is in the list at most once.
C17_SelectionPredicate ==
    (last.op = "pass" /\ SelectionDone(last)) =>
        /\ \A n \in Namespaces :
              Eligible(last.pre, n) =>
                  (n \in SeqSet(last.RBACNamespaces)) =
                      \/ last.pre.ns[n].scc # ""
                      \/ last.pre.ns[n].rbac # version
                      \/ last.pre.sccRB[n] = Absent
                      \/ last.pre.sccRB[n].RoleRef.Kind # "ClusterRole"
        /\ Cardinality(SeqSet(last.RBACNamespaces)) = Len(last.RBACNamespaces)

\* A pass selected a namespace that carried the label of this release and
\* no annotation because its grant binding was bound to a Role, and did not
\* select another, labelled and bound to the ClusterRole.
C17_Witness ==
    /\ last.op = "pass"
    /\ \E n \in SeqSet(last.RBACNamespaces) :
          /\ last.pre.ns[n].scc = ""
          /\ last.pre.ns[n].rbac = version
          /\ last.pre.sccRB[n] # Absent
          /\ last.pre.sccRB[n].RoleRef.Kind = "Role"
    /\ \E m \in Namespaces : Eligible(last.pre, m) /\ m \notin SeqSet(last.RBACNamespaces)

---------------------------------------------------------------------------
(* C18 *)

\* The pass recorded in l ran the version gate without finding the
\* installer set of this release.
GatePass(l) ==
    /\ l.op = "pass"
    /\ ~ParamIsFalse(tektonConfig, rbacParamName)
    /\ l.pre.iset # version

\* The gate of the pass recorded in l cleared the labels and created the
\* installer set.
GateCompleted(l) == GatePass(l) /\ l.err = RECONCILE_AGAIN_ERR

\* n exists in c.
Exists(c, n) == c.ns[n].phase # "Gone"

\* The next pass selects every namespace that is not excluded.
NextPassSelectsAll ==
    /\ SelectionDone(NextPass)
    /\ \A n \in Namespaces : Eligible(cluster, n) => n \in SeqSet(NextPass.RBACNamespaces)

---------------------------------------------------------------------------
(* C19 *)

\* The entry i of log is a write of the gate: one of the two on installer
\* sets, or the Update that removes the label of a namespace.
IsGateWrite(log, i) ==
    \/ log[i][2] = "TektonInstallerSet"
    \/ log[i][1] = "Update" /\ log[i][2] = "Namespace"

\* The namespaces of c that carry the rbac-version label of this release.
LabelledNs(c) == {n \in Namespaces : Exists(c, n) /\ c.ns[n].rbac = version}

\* C19: when the gate finds no installer set of this release and none of
\* its calls fails, the pass ends with the reconcile-again signal -- neither
\* nil nor another error -- and has issued the calls of the gate only (the
\* Delete of the obsolete set, the lookup, the List and one Update per
\* labelled namespace, the Create): no SCC is verified, the shared
\* ClusterRole is not written, no namespace is selected or run through
\* processRBAC, no label is patched.  The pass after it finds the installer
\* set, issues no write of the gate, and goes on to the validation and the
\* selection.
C19_GateAsksForAnotherPass ==
    (GatePass(last) /\ last.F \cap (1..last.calls) = {}) =>
        /\ last.err = RECONCILE_AGAIN_ERR
        /\ last.stage = "prerequisites failed"
        /\ last.calls = 4 + Cardinality(LabelledNs(last.pre))
        /\ \A i \in 1..Len(last.log) : IsGateWrite(last.log, i)
        /\ cluster.sccClusterRole = last.pre.sccClusterRole
        /\ last.RBACNamespaces = <<>> /\ last.CANamespaces = <<>>
        /\ ProcessedNs(last) = {}
        /\ last.patched = {}
        /\ \A n \in Namespaces : cluster.ns[n].rbac # version
        /\ cluster.iset = version
        /\ NextPass.err # RECONCILE_AGAIN_ERR
        /\ \A i \in 1..Len(NextPass.x.log) : ~IsGateWrite(NextPass.x.log, i)
        /\ ~InvalidSCCConfig(tektonConfig) => SelectionDone(NextPass) /\ NextPass.err = NoErr

\* The first pass on an upgraded cluster: the installer set of the release
\* before is there, the namespaces wait for RBAC work, and the pass ends
\* with the reconcile-again signal.
C19_Witness ==
    /\ GatePass(last)
    /\ last.F = {}
    /\ last.err = RECONCILE_AGAIN_ERR
    /\ last.pre.iset = PreviousVersion
    /\ \E n \in Namespaces : Eligible(cluster, n) /\ cluster.ns[n].rbac = PreviousVersion

---------------------------------------------------------------------------
(* C20 *)

\* The writes of the gate in the log.
GateWritesOf(log) == {log[i] : i \in {j \in 1..Len(log) : IsGateWrite(log, j)}}

\* C20: when the installer set of this release exists, the gate removes no
\* rbac-version label and creates no installer set; the one write it may
\* issue is the Delete of the obsolete installer set rbac-resources, issued
\* and the set gone when it was there and the call did not fail; that the
\* set is not there is no error: the pass goes on to the validation.
C20_GateLeavesLabels ==
    (last.op = "pass" /\ RBACEnabled /\ last.pre.iset = version) =>
        /\ GateWritesOf(last.log) \subseteq {<<"Delete", "TektonInstallerSet", "rbac-resources">>}
        /\ cluster.iset = version
        /\ \A n \in Namespaces :
              \/ cluster.ns[n].rbac = last.pre.ns[n].rbac
              \/ cluster.ns[n].rbac = version /\ n \in Stamped(last, cluster)
        /\ last.err # RECONCILE_AGAIN_ERR
        /\ 1 \notin last.F =>
              /\ ~cluster.isetOld
              /\ (GateWritesOf(last.log) # {}) = last.pre.isetOld
        /\ last.F = {} => last.calls > 2 /\ (last.stage = "prerequisites failed" => last.err # NoErr)
        /\ (last.F = {} /\ ~InvalidSCCConfig(tektonConfig)) => SelectionDone(last)

\* A pass found the installer set of this release, the obsolete one, and a
\* namespace labelled with this release.
C20_Witness ==
    /\ last.op = "pass"
    /\ last.F = {}
    /\ last.pre.iset = version
    /\ last.pre.isetOld
    /\ ~cluster.isetOld
    /\ LabelledNs(last.pre) # {}
    /\ LabelledNs(cluster) = LabelledNs(last.pre)

---------------------------------------------------------------------------
(* C21 *)

\* longest parameter list of a TektonConfig before defaulting
MaxParams == 4

ToggleNames == {rbacParamName, legacyPipelineRbacParamName, trustedCABundleParamName}

\* The values a user writes for a toggle: the two the code knows and one it
\* does not.
ToggleValues == {"true", "false", "yes"}

\* The parameter lists a user leaves in TektonConfig: toggles present or
\* not, well-formed or not, in any order, also more than once.
ParamLists == SeqsUpTo([Name : ToggleNames, Value : ToggleValues], MaxParams)

\* A defaulting that leaves the value of a parameter as the user wrote it.
setDefault_value_Keep(v) == v

\* The loop body of setDefault: the value of a toggle that is neither
\* "false" nor "true" becomes "true".
setDefault_value(v) ==
    IF v.Name \in ToggleNames /\ v.Value # "false" /\ v.Value # "true"
    THEN [v EXCEPT !.Value = "true"]
    ELSE v

\* The indexes of params that carry the name.
ParamIndexes(params, name) == {i \in 1..Len(params) : params[i].Name = name}

ParamFound(params, name) == ParamIndexes(params, name) # {}

\* createRbacResourceValue of setDefault: the value, as the user wrote it,
\* of the last parameter called createRbacResource.
createRbacResourceValue(params) ==
    params[CHOOSE i \in ParamIndexes(params, rbacParamName) :
               \A j \in ParamIndexes(params, rbacParamName) : j <= i].Value

\* defaultVal of setDefault for a missing createCABundleConfigMaps.
setDefault_defaultVal(params) ==
    IF ParamFound(params, rbacParamName) /\ createRbacResourceValue(params) = "false"
    THEN "false"
    ELSE "true"

\* The three appends of setDefault, for the toggles the loop did not find.
setDefault_append(params, found, name, value) ==
    IF found THEN params ELSE Append(params, [Name |-> name, Value |-> value])

\* setDefault: the loop over the parameters, then the appends in the order
\* createRbacResource, legacyPipelineRbac, createCABundleConfigMaps.
setDefault(tc) ==
    [tc EXCEPT !.Params =
        setDefault_append(
            setDefault_append(
                setDefault_append([i \in 1..Len(tc.Params) |-> setDefault_value(tc.Params[i])],
                                  ParamFound(tc.Params, rbacParamName), rbacParamName, "true"),
                ParamFound(tc.Params, legacyPipelineRbacParamName),
                legacyPipelineRbacParamName, "true"),
            ParamFound(tc.Params, trustedCABundleParamName),
            trustedCABundleParamName, setDefault_defaultVal(tc.Params))]

\* The operator reads a TektonConfig as the user wrote it.
InitDefaults ==
    /\ cluster = InitCluster
    /\ tektonConfig \in {[InitConfig EXCEPT !.Params = p] : p \in ParamLists}
    /\ informer = Observe(InitCluster)
    /\ last = NoPass
    /\ faults = 0

\* setDefault runs on the TektonConfig.
ApplyDefaults ==
    /\ tektonConfig' = setDefault(tektonConfig)
    /\ last' = [op |-> "setDefault", pre |-> tektonConfig]
    /\ UNCHANGED <<cluster, informer, faults>>

NextDefaults == ApplyDefaults

SpecDefaults == InitDefaults /\ [][NextDefaults]_vars

\* Every parameter of params called name has the value.
AllValued(params, name, value) ==
    \A i \in ParamIndexes(params, name) : params[i].Value = value

\* What holds of the toggle name after setDefault whatever the toggle: it
\* is present, each occurrence is "true" or "false", an occurrence the user
\* wrote as "true" or "false" keeps its value and one written otherwise is
\* "true".
ToggleNormalised(pre, post, name) ==
    /\ ParamFound(post, name)
    /\ \A i \in ParamIndexes(post, name) : post[i].Value \in {"true", "false"}
    /\ \A i \in ParamIndexes(pre, name) :
          /\ post[i].Name = name
          /\ post[i].Value = (IF pre[i].Value \in {"true", "false"} THEN pre[i].Value ELSE "true")

\* C21 as stated: after setDefault each of the three toggles is present
\* with value "true" or "false", and is "true" whenever it was absent or
\* carried another value, whatever the values of the other toggles.
C21_TogglesDefaultTrue ==
    last.op = "setDefault" =>
        \A name \in ToggleNames :
            /\ ToggleNormalised(last.pre.Params, tektonConfig.Params, name)
            /\ ~ParamFound(last.pre.Params, name) =>
                  AllValued(tektonConfig.Params, name, "true")

\* C21 as amended: after setDefault each of the three toggles is present
\* with value "true" or "false"; a value the user wrote as "true" or
\* "false" is kept and any other value is "true"; an absent
\* createRbacResource or legacyPipelineRbac is "true"; an absent
\* createCABundleConfigMaps is "false" when createRbacResource was present
\* and its (last) value as written was "false", and "true" otherwise.
C21_TogglesDefaulted ==
    last.op = "setDefault" =>
        /\ \A name \in ToggleNames :
              ToggleNormalised(last.pre.Params, tektonConfig.Params, name)
        /\ \A name \in {rbacParamName, legacyPipelineRbacParamName} :
              ~ParamFound(last.pre.Params, name) =>
                  AllValued(tektonConfig.Params, name, "true")
        /\ ~ParamFound(last.pre.Params, trustedCABundleParamName) =>
              AllValued(tektonConfig.Params, trustedCABundleParamName,
                        IF /\ ParamFound(last.pre.Params, rbacParamName)
                           /\ createRbacResourceValue(last.pre.Params) = "false"
                        THEN "false" ELSE "true")
        /\ Len(tektonConfig.Params) =
              Len(last.pre.Params)
                  + Cardinality({name \in ToggleNames : ~ParamFound(last.pre.Params, name)})

\* setDefault ran on a TektonConfig that switches RBAC off, says nothing of
\* the trust bundles and carries a malformed legacy toggle.
C21_Witness ==
    /\ last.op = "setDefault"
    /\ ParamFound(last.pre.Params, rbacParamName)
    /\ createRbacResourceValue(last.pre.Params) = "false"
    /\ ~ParamFound(last.pre.Params, trustedCABundleParamName)
    /\ \E i \in ParamIndexes(last.pre.Params, legacyPipelineRbacParamName) :
          last.pre.Params[i].Value = "yes"
    /\ AllValued(tektonConfig.Params, trustedCABundleParamName, "false")

---------------------------------------------------------------------------
(* The aggregator on its own: bulkUpdateClusterRoleBinding on any live     *)
(* subject list and any input list.                                        *)

\* The subject lists the cluster role binding holds and the aggregator is
\* handed: the workload identities of namespaces, none twice, in any order.
SubjectLists ==
    {q \in SeqsUpTo({SASubject(n) : n \in Namespaces}, Cardinality(Namespaces)) :
        \A i, j \in 1..Len(q) : q[i] = q[j] => i = j}

\* The cluster role binding exists, with any subjects and owner references.
InitAggregator ==
    /\ cluster \in {[InitCluster EXCEPT !.ciClusterRole = [OwnerReferences |-> <<rOwnerRef>>],
                                        !.ciCRB = [Subjects |-> s, OwnerReferences |-> refs]] :
                       s \in SubjectLists, refs \in OwnerRefLists}
    /\ tektonConfig = InitConfig
    /\ informer = Observe(cluster)
    /\ last = NoPass
    /\ faults = 0

\* b is what bulkUpdateClusterRoleBinding returned.
BulkUpdateDone(b, subjectlist, F) ==
    /\ cluster' = b.x.c
    /\ informer' = Observe(b.x.c)
    /\ last' = [op |-> "bulkUpdate", pre |-> cluster, subjectlist |-> subjectlist, F |-> F,
                err |-> b.err, log |-> b.x.log, calls |-> b.x.k]
    /\ UNCHANGED <<tektonConfig, faults>>

\* handleClusterRoleBinding has read the binding and hands it, with the
\* subjects of this pass (at least one), to bulkUpdateClusterRoleBinding;
\* none of its Update calls fails, or the first or the second does.
BulkUpdate ==
    /\ cluster.ciCRB # Absent
    /\ \E subjectlist \in SubjectLists \ {<<>>} : \E F \in {{}, {1}, {2}} :
          BulkUpdateDone(
              bulkUpdateClusterRoleBinding(Ctx(cluster, tektonConfig, informer, F),
                                           cluster.ciCRB, subjectlist),
              subjectlist, F)

NextAggregator == BulkUpdate

SpecAggregator == InitAggregator /\ [][NextAggregator]_vars

---------------------------------------------------------------------------
(* C22 *)

\* list1 is the beginning of list2.
IsPrefix(list1, list2) ==
    /\ Len(list1) <= Len(list2)
    /\ SubSeq(list2, 1, Len(list1)) = list1

\* C22 (partial-list safety of the aggregator): for every live subject list
\* S of the cluster role binding and every input list X -- a strict part of
\* S, a list that shares nothing with S, any other -- the merge yields S
\* followed by the members of X that S lacks, as a set exactly S \cup X, and
\* that is what the bulk update leaves persisted when it returns no error;
\* when one of its calls fails no subject of S is lost either.
C22_MergeIsUnion ==
    last.op = "bulkUpdate" =>
        /\ SubjectSet(mergeSubjects(last.pre.ciCRB.Subjects, last.subjectlist))
              = SubjectSet(last.pre.ciCRB.Subjects) \cup SubjectSet(last.subjectlist)
        /\ IsPrefix(last.pre.ciCRB.Subjects,
                    mergeSubjects(last.pre.ciCRB.Subjects, last.subjectlist))
        /\ SubjectSet(last.pre.ciCRB.Subjects) \subseteq SubjectSet(cluster.ciCRB.Subjects)
        /\ SubjectSet(cluster.ciCRB.Subjects)
              \subseteq SubjectSet(last.pre.ciCRB.Subjects) \cup SubjectSet(last.subjectlist)
        /\ last.err = NoErr =>
              SubjectSet(cluster.ciCRB.Subjects)
                  = SubjectSet(last.pre.ciCRB.Subjects) \cup SubjectSet(last.subjectlist)

\* The aggregator was handed a strict part of the live subjects, wrote the
\* binding, and the subjects it was not handed are still there.
C22_Witness ==
    /\ last.op = "bulkUpdate"
    /\ last.err = NoErr
    /\ last.subjectlist # <<>>
    /\ SubjectSet(last.subjectlist) \subseteq SubjectSet(last.pre.ciCRB.Subjects)
    /\ SubjectSet(last.subjectlist) # SubjectSet(last.pre.ciCRB.Subjects)
    /\ Writes(last, "Update", "ClusterRoleBinding") # {}
    /\ SubjectSet(cluster.ciCRB.Subjects) = SubjectSet(last.pre.ciCRB.Subjects)

---------------------------------------------------------------------------
(* C23 *)

\* C23 (no-op condition of the aggregator): the bulk update issues an
\* Update call only if the persisted subject set or the persisted owner
\* references change; when the input list is part of the live subjects and
\* the binding holds the reference to the installer set of this release it
\* issues none; and it never issues more than one.
C23_UpdateOnlyOnChange ==
    (last.op = "bulkUpdate" /\ last.F = {}) =>
        /\ Cardinality(Writes(last, "Update", "ClusterRoleBinding")) <= 1
        /\ Writes(last, "Update", "ClusterRoleBinding") # {} =>
              \/ SubjectSet(cluster.ciCRB.Subjects) # SubjectSet(last.pre.ciCRB.Subjects)
              \/ cluster.ciCRB.OwnerReferences # last.pre.ciCRB.OwnerReferences
        /\ (/\ SubjectSet(last.subjectlist) \subseteq SubjectSet(last.pre.ciCRB.Subjects)
            /\ last.pre.ciCRB.OwnerReferences = <<rOwnerRef>>) =>
              Writes(last, "Update", "ClusterRoleBinding") = {}

---------------------------------------------------------------------------
(* C24 *)

\* The entries of log that write the shared ClusterRole
\* pipelines-scc-clusterrole.
SharedRoleWrites(log) ==
    {i \in 1..Len(log) : log[i][2] = "ClusterRole" /\ log[i][3] = pipelinesSCCClusterRole}

\* The entries of log that write the cluster role binding.
CRBWrites(log) == {i \in 1..Len(log) : log[i][2] = "ClusterRoleBinding"}

\* The entries of log written by processRBAC for a namespace.
LoopWrites(log) ==
    {i \in 1..Len(log) :
        log[i][2] \in {"ServiceAccount", "Role", "Event", pipelinesSCCRoleBinding,
                       PipelineRoleBinding}}

\* C24 (ordering of cluster-scoped writes): in every pass the shared
\* ClusterRole pipelines-scc-clusterrole is written at most once, the
\* cluster role binding is written at most once, and each of these writes
\* comes after every write of the per-namespace loop.
C24_ClusterWritesOnceAfterLoop ==
    last.op = "pass" =>
        /\ Cardinality(SharedRoleWrites(last.log)) <= 1
        /\ Cardinality(CRBWrites(last.log)) <= 1
        /\ \A i \in SharedRoleWrites(last.log) \cup CRBWrites(last.log) :
              \A j \in LoopWrites(last.log) : j < i

---------------------------------------------------------------------------
(* C25 *)

\* The shared ClusterRole of c grants the verb use on exactly the SCC scc.
SharedRoleGrants(c, scc) ==
    /\ c.sccClusterRole # Absent
    /\ c.sccClusterRole.ResourceNames = <<scc>>
    /\ c.sccClusterRole.Verbs = <<"use">>

\* C25: a pass with RBAC reconciliation on that finds the installer set of
\* this release and a valid SCC configuration gets through the
\* prerequisites unless one of their API calls fails, and then leaves the
\* shared ClusterRole pipelines-scc-clusterrole granting use of exactly the
\* default SCC configured now -- whatever it granted before, and also when
\* the pass selects no namespace.
C25_SharedRoleFollowsDefault ==
    (/\ last.op = "pass"
     /\ RBACEnabled
     /\ last.pre.iset = version
     /\ ~InvalidSCCConfig(tektonConfig)) =>
        /\ last.F = {} => last.stage # "prerequisites failed"
        /\ last.stage # "prerequisites failed" =>
              SharedRoleGrants(cluster, tektonConfig.Default)

\* The default was changed after everything was reconciled: the pass found
\* the shared ClusterRole granting the former default, selected no
\* namespace, and left the role granting the new default.
C25_Witness ==
    /\ last.op = "pass"
    /\ last.stage = "nothing selected"
    /\ last.pre.sccClusterRole # Absent
    /\ last.pre.sccClusterRole.ResourceNames # <<tektonConfig.Default>>
    /\ SharedRoleGrants(cluster, tektonConfig.Default)

---------------------------------------------------------------------------
(* C26 *)

\* The owner of a namespace asks, by the annotation, for an SCC the cluster
\* does not have.
RequestUnknownSCC ==
    \E n \in Namespaces :
        /\ ActiveApp(n)
        /\ cluster.ns[n].scc # UnknownSCC
        /\ Outside([cluster EXCEPT !.ns[n].scc = UnknownSCC], tektonConfig)

\* Passes with and without API faults while annotations come, go and name
\* SCCs that do not exist.
NextRequests == Reconcile \/ ReconcileWithFault \/ SetAnnotation \/ RequestUnknownSCC

SpecRequests == Init /\ [][NextRequests]_vars

\* The annotation of n in c names an SCC the cluster does not have.
RequestsMissingSCC(c, n) == c.ns[n].scc # "" /\ c.ns[n].scc \notin SCCsOnCluster

\* The entries of log that write an object of one of the kinds in
\* namespace n.
NsWrites(log, kinds, n) ==
    {i \in 1..Len(log) : log[i][2] \in kinds /\ log[i][3] = n}

\* C26: in a pass that reaches the per-namespace loop, a namespace whose
\* annotation names an SCC that does not exist on the cluster is selected
\* and fails -- with NotFound, after a Warning event was created in it,
\* unless an API call failed on the way -- and it alone: no Role, grant
\* binding or legacy binding of it is created, changed or deleted, its
\* label is not patched and stays as it was, every other selected
\* namespace is processed, and the pass returns no error because of it.
C26_MissingSCCFailsNamespaceOnly ==
    (last.op = "pass" /\ LoopRan(last)) =>
        \A n \in Namespaces :
            (Eligible(last.pre, n) /\ RequestsMissingSCC(last.pre, n)) =>
                /\ n \in SelectedNs(last)
                /\ n \in FailedNs(last)
                /\ n \notin UpdatedNs(last)
                /\ last.F = {} =>
                      /\ <<n, NotFoundErr>> \in last.failed
                      /\ NsWrites(last.log, {"Event"}, n) # {}
                      /\ <<n, last.pre.ns[n].scc>> \in cluster.events
                /\ NsWrites(last.log, {"Role", pipelinesSCCRoleBinding, PipelineRoleBinding,
                                       "Namespace"}, n) = {}
                /\ cluster.role[n] = last.pre.role[n]
                /\ cluster.sccRB[n] = last.pre.sccRB[n]
                /\ cluster.editRB[n] = last.pre.editRB[n]
                /\ n \notin last.patched
                /\ cluster.ns[n].rbac = last.pre.ns[n].rbac
                /\ ProcessedNs(last) = SelectedNs(last)
                /\ last.stage # "aggregate failed" => last.err = NoErr

\* A pass met a namespace, reconciled before, whose annotation names an SCC
\* that does not exist: it wrote the event, failed the namespace, and
\* reconciled and labelled another namespace.
C26_Witness ==
    /\ last.op = "pass"
    /\ last.F = {}
    /\ \E n, m \in Namespaces :
          /\ RequestsMissingSCC(last.pre, n)
          /\ last.pre.sccRB[n] # Absent
          /\ <<n, NotFoundErr>> \in last.failed
          /\ <<n, UnknownSCC>> \in cluster.events
          /\ m \in UpdatedNs(last)
          /\ m \in last.patched

---------------------------------------------------------------------------
(* C27 *)

\* The Delete calls of the log on objects the RBAC reconciliation keeps.
RBACDeletes(log) == {i \in 1..Len(log) : log[i][1] = "Delete" /\ log[i][2] \in RBACKinds}

\* The role the grant binding of namespace n of cluster c is to be bound to.
ResolvedRoleRef(c, n) == IF c.ns[n].scc # "" THEN NsRoleRef ELSE ClusterRoleRef

\* What no pass deletes: an identity, the shared ClusterRole, the cluster
\* role of the interceptors, the cluster role binding.
NeverDeleted(pre, c) ==
    /\ \A n \in Namespaces : pre.sa[n] # Absent => c.sa[n] # Absent
    /\ pre.sccClusterRole # Absent => c.sccClusterRole # Absent
    /\ pre.ciClusterRole # Absent => c.ciClusterRole # Absent
    /\ pre.ciCRB # Absent => c.ciCRB # Absent

\* C27 as stated (deletion frame): a pass never deletes a workload
\* identity, a grant binding or the cluster role binding; the only objects
\* of the RBAC reconciliation it deletes are the legacy binding, with the
\* legacy toggle off, and the per-namespace Role of a namespace whose
\* annotation is empty.
C27_DeletesOnlyLegacyAndStrayRole ==
    last.op = "pass" =>
        /\ NeverDeleted(last.pre, cluster)
        /\ \A i \in RBACDeletes(last.log) :
              \/ /\ last.log[i][2] = PipelineRoleBinding
                 /\ ~isLegacyRBACEnabled(tektonConfig)
              \/ /\ last.log[i][2] = "Role"
                 /\ last.pre.ns[last.log[i][3]].scc = ""

\* C27 as amended: a pass never deletes a workload identity or the cluster
\* role binding (nor the two cluster roles); the objects of the RBAC
\* reconciliation it deletes are the legacy binding, with the legacy toggle
\* off; the per-namespace Role of a namespace whose annotation is empty;
\* and the grant binding of a namespace when it is bound to another role
\* than the one the annotation resolves to -- the binding is created again
\* in the same step, bound to that role, and is missing after the pass
\* only when an API call of the pass failed, the namespace then being
\* among the failed ones.
C27_DeletionFrame ==
    last.op = "pass" =>
        /\ NeverDeleted(last.pre, cluster)
        /\ \A i \in RBACDeletes(last.log) :
              \/ /\ last.log[i][2] = PipelineRoleBinding
                 /\ ~isLegacyRBACEnabled(tektonConfig)
                 /\ last.pre.editRB[last.log[i][3]] # Absent
              \/ /\ last.log[i][2] = "Role"
                 /\ last.pre.ns[last.log[i][3]].scc = ""
                 /\ last.pre.role[last.log[i][3]] # Absent
              \/ /\ last.log[i][2] = pipelinesSCCRoleBinding
                 /\ last.pre.sccRB[last.log[i][3]] # Absent
                 /\ last.pre.sccRB[last.log[i][3]].RoleRef
                       # ResolvedRoleRef(last.pre, last.log[i][3])
                 /\ \/ /\ cluster.sccRB[last.log[i][3]] # Absent
                       /\ cluster.sccRB[last.log[i][3]].RoleRef
                             = ResolvedRoleRef(last.pre, last.log[i][3])
                    \/ /\ last.F # {}
                       /\ last.log[i][3] \in FailedNs(last)
        /\ \A n \in Namespaces :
              (last.pre.sccRB[n] # Absent /\ cluster.sccRB[n] = Absent) =>
                  /\ NsWrites(last.log, {pipelinesSCCRoleBinding}, n) # {}
                  /\ last.F # {}
                  /\ n \in FailedNs(last)

\* The annotation of a reconciled namespace was removed: the pass deleted
\* its per-namespace Role, deleted its grant binding, and created the
\* binding again bound to the shared ClusterRole.
C27_Witness ==
    /\ last.op = "pass"
    /\ last.F = {}
    /\ \E n \in Namespaces :
          /\ NsWrites(last.log, {"Role"}, n) \cap RBACDeletes(last.log) # {}
          /\ NsWrites(last.log, {pipelinesSCCRoleBinding}, n) \cap RBACDeletes(last.log) # {}
          /\ last.pre.sccRB[n].RoleRef = NsRoleRef
          /\ cluster.sccRB[n] # Absent
          /\ cluster.sccRB[n].RoleRef = ClusterRoleRef

---------------------------------------------------------------------------
(* C28 *)

\* The pass recorded in l, had no API call failed.
FaultFreePass(l) == createResources(Ctx(l.pre, tektonConfig, Observe(l.pre), {}))

\* The identity, Role, grant binding and legacy binding of namespace n are
\* in c as the four steps write them from pre -- the cluster ff is what the
\* pass leaves when no call fails.  (With the legacy toggle off a failed Get
\* of the legacy binding is not an error of step 4, and the binding is then
\* as it was.)
KeptAsWritten(c, pre, ff, n) ==
    /\ c.sa[n] # Absent /\ c.sa[n] = ff.sa[n]
    /\ c.role[n] = ff.role[n]
    /\ c.sccRB[n] # Absent /\ c.sccRB[n] = ff.sccRB[n]
    /\ \/ c.editRB[n] = ff.editRB[n]
       \/ ~isLegacyRBACEnabled(tektonConfig) /\ c.editRB[n] = pre.editRB[n]

\* C28: when handleClusterRoleBinding fails in a pass, the pass returns its
\* error; no rbac-version label is patched or changed in that pass (nor is
\* a trust bundle written); and the identity, Role, grant binding and
\* legacy binding of every namespace that went through the four steps are
\* after the pass exactly as those steps wrote them -- as the same pass
\* leaves them when no call fails -- nothing is taken back.
C28_AggregatorFailureKeepsWork ==
    (last.op = "pass" /\ last.stage = "aggregate failed") =>
        /\ last.err # NoErr
        /\ UpdatedNs(last) # {}
        /\ last.patched = {}
        /\ Writes(last, "Patch", "Namespace") = {}
        /\ Writes(last, "Patch", "NamespaceCA") = {}
        /\ \A n \in Namespaces :
              /\ cluster.ns[n] = last.pre.ns[n]
              /\ cluster.cm[n] = last.pre.cm[n]
        /\ RBACDeletes(last.log) \subseteq
              {i \in 1..Len(last.log) : last.log[i][3] \in ProcessedNs(last)}
        /\ \A n \in UpdatedNs(last) :
              KeptAsWritten(cluster, last.pre, FaultFreePass(last).x.c, n)

\* The aggregator failed in a pass that had created the identity and the
\* grant binding of a namespace: they are there, the label is not.
C28_Witness ==
    /\ last.op = "pass"
    /\ last.stage = "aggregate failed"
    /\ \E n \in UpdatedNs(last) :
          /\ last.pre.sa[n] = Absent
          /\ last.pre.sccRB[n] = Absent
          /\ cluster.sa[n] # Absent
          /\ cluster.sccRB[n] # Absent
          /\ cluster.ns[n].rbac # version

---------------------------------------------------------------------------
(* C29 *)

\* o is what createResources returned, as in PassDone; the namespace
\* informer, the binding informer, or both have not caught up with the
\* writes of the pass and hold what they held during it.
PassDoneLagging(o, staleNs, staleCrb) ==
    /\ cluster' = o.x.c
    /\ informer' = [ns |-> IF staleNs THEN o.x.inf.ns ELSE o.x.c.ns,
                    crb |-> IF staleCrb THEN o.x.inf.crb ELSE o.x.c.ciCRB]
    /\ last' = [op |-> "pass", pre |-> cluster, F |-> {}, err |-> o.err,
                RBACNamespaces |-> o.RBACNamespaces, CANamespaces |-> o.CANamespaces,
                namespacesToUpdate |-> o.namespacesToUpdate, failed |-> o.failed,
                stage |-> o.stage, patched |-> o.x.patched,
                log |-> o.x.log, calls |-> o.x.k]
    /\ UNCHANGED tektonConfig

\* A pass without API faults after which an informer lags behind.
ReconcileLagging ==
    /\ \E staleNs, staleCrb \in BOOLEAN :
           /\ staleNs \/ staleCrb
           /\ PassDoneLagging(NextPass, staleNs, staleCrb)
    /\ informer' # Observe(cluster')
    /\ UNCHANGED faults

\* The informers catch up with the cluster.
CacheSync ==
    /\ informer # Observe(cluster)
    /\ informer' = Observe(cluster)
    /\ UNCHANGED <<cluster, tektonConfig, last, faults>>

NextStale == Reconcile \/ ReconcileLagging \/ CacheSync \/ SetAnnotation

SpecStale == Init /\ [][NextStale]_vars

\* C29 (stale-cache tolerance): once the informers have caught up and the
\* reconciler is quiescent, the subjects of the cluster role binding are
\* exactly the workload identities of the namespaces that carry the
\* rbac-version label of this release, whatever the informers showed to the
\* passes before.
C29_StaleCacheCorrected ==
    (Quiescent /\ RBACEnabled /\ informer = Observe(cluster)) =>
        SubjectSet(CRBSubjects(cluster)) =
            {SASubject(n) : n \in {m \in Namespaces : AtVersion(cluster, m)}}

---------------------------------------------------------------------------
(* C30 *)

\* The pass recorded in l was abandoned: its context was cancelled and
\* every API call from one on failed.
Abandoned(l) == l.op = "pass" /\ Cardinality(l.F) > 1

\* Namespace n of cluster c carries the rbac-version label of this release
\* and holds what the four per-namespace steps leave under tc.
RecoveredNs(c, tc, n) == c.ns[n].rbac = version /\ FullyGranted(c, tc, n)

\* C30 (abandonment safety): after a pass that was abandoned between two
\* API calls, one following pass that completes without fault leaves every
\* eligible namespace the abandoned pass had selected labelled with this
\* release and fully reconciled: identity, grant binding bound to the role
\* its annotation asks for, legacy binding as the toggle says.
C30_AbandonedPassRecovered ==
    (Abandoned(last) /\ RBACEnabled /\ NextPass.err = NoErr) =>
        \A n \in SelectedNs(last) :
            Eligible(cluster, n) => RecoveredNs(NextPass.x.c, tektonConfig, n)

---------------------------------------------------------------------------
(* The pruning step on its own: removeAndUpdateNSFromCI on any live        *)
(* subject list and any set of namespaces at r.version.                    *)

\* The cluster role binding exists with any subjects; any set of namespaces
\* carries the rbac-version label of this release.
InitPrune ==
    /\ cluster \in {[InitCluster EXCEPT
                        !.ciClusterRole = [OwnerReferences |-> <<rOwnerRef>>],
                        !.ciCRB = [Subjects |-> s, OwnerReferences |-> <<rOwnerRef>>],
                        !.ns = [n \in Namespaces |->
                                   IF n \in V THEN [@[n] EXCEPT !.rbac = version] ELSE @[n]]] :
                       s \in SubjectLists, V \in SUBSET Namespaces}
    /\ tektonConfig = InitConfig
    /\ informer = Observe(cluster)
    /\ last = NoPass
    /\ faults = 0

\* p is what removeAndUpdateNSFromCI returned.
PruneDone(p, F) ==
    /\ cluster' = p.x.c
    /\ informer' = Observe(p.x.c)
    /\ last' = [op |-> "prune", pre |-> cluster, F |-> F, err |-> p.err,
                log |-> p.x.log, calls |-> p.x.k]
    /\ UNCHANGED <<tektonConfig, faults>>

\* One invocation of removeAndUpdateNSFromCI; its Update call fails or not.
Prune ==
    \E F \in {{}, {1}} :
        PruneDone(removeAndUpdateNSFromCI(Ctx(cluster, tektonConfig, informer, F)), F)

NextPrune == Prune

SpecPrune == InitPrune /\ [][NextPrune]_vars

---------------------------------------------------------------------------
(* C31 *)

\* The subjects of list whose namespace is in V.
SubjectsIn(list, V) == {s \in SubjectSet(list) : s.Namespace \in V}

\* C31 (pruning completeness): one invocation of the pruning step that
\* returns no error leaves in the cluster role binding exactly the subjects
\* it held whose namespace carries the rbac-version label of this release:
\* every other subject is removed, also two stale subjects next to each
\* other and also when there are as many subjects as labelled namespaces.
C31_PruneRemovesAllStale ==
    (last.op = "prune" /\ last.err = NoErr) =>
        SubjectSet(CRBSubjects(cluster)) =
            SubjectsIn(CRBSubjects(last.pre), NamespacesAtVersion(last.pre.ns))

---------------------------------------------------------------------------
(* The workload identity: owner references left on it from outside, and    *)
(* somebody else creating it between the Get and the Create of a pass.     *)

\* The owner-reference lists somebody outside leaves on the identity.
SAOwnerRefLists ==
    {q \in SeqsUpTo({tektonConfigOwnerRef, rOwnerRef, ForeignRef}, MaxOwnerRefs) :
        \A i, j \in 1..Len(q) : q[i] = q[j] => i = j}

\* Somebody outside leaves another owner-reference list on the identity of
\* a namespace.
SetSAOwnerReferences ==
    \E n \in Namespaces : \E refs \in SAOwnerRefLists :
        /\ ActiveApp(n)
        /\ cluster.sa[n] # Absent
        /\ cluster.sa[n].OwnerReferences # refs
        /\ Outside([cluster EXCEPT !.sa[n].OwnerReferences = refs], tektonConfig)

\* o is what createResources returned in a pass with such a race.
PassDoneRacing(o, race) ==
    /\ cluster' = o.x.c
    /\ informer' = Observe(o.x.c)
    /\ last' = [op |-> "pass", pre |-> cluster, F |-> {}, err |-> o.err,
                RBACNamespaces |-> o.RBACNamespaces, CANamespaces |-> o.CANamespaces,
                namespacesToUpdate |-> o.namespacesToUpdate, failed |-> o.failed,
                stage |-> o.stage, patched |-> o.x.patched,
                log |-> o.x.log, calls |-> o.x.k, race |-> race]
    /\ UNCHANGED tektonConfig

\* A pass without API faults during which somebody else creates the
\* identity of the namespaces in race after the pass has looked for it;
\* Create hands back no object (raceNil) or an empty one.
ReconcileRacing ==
    /\ \E race \in SUBSET {n \in Namespaces : ActiveApp(n) /\ cluster.sa[n] = Absent} :
       \E raceNil \in BOOLEAN :
           /\ race # {}
           /\ PassDoneRacing(
                  createResources([Ctx(cluster, tektonConfig, informer, {})
                                      EXCEPT !.race = race, !.raceNil = raceNil]),
                  race)
    /\ UNCHANGED faults

NextIdentity == Reconcile \/ ReconcileRacing \/ SetSAOwnerReferences \/ DropVersionLabel

SpecIdentity == Init /\ [][NextIdentity]_vars

---------------------------------------------------------------------------
(* C32 *)

\* The namespaces in which the pass recorded in l found the identity and
\* took it through step 1: selected, the identity there before the pass,
\* and step 1 the first call that could fail.
IdentityUpdated(l) ==
    {n \in SelectedNs(l) : l.pre.sa[n] # Absent /\ n \in UpdatedNs(l)}

---------------------------------------------------------------------------
(* C33 *)

\* The namespaces in which the Create of the identity met the identity
\* somebody else had just created, in the pass recorded in l.
CreateConflicts(l) == {n \in SelectedNs(l) : n \in l.race}

\* C33 (create conflict on the identity): when the Get does not find the
\* identity and the Create answers already-exists, the namespace goes
\* through the remaining steps: it is handed to the aggregator, and its
\* grant binding and the cluster role binding name the identity pipeline of
\* the namespace as a subject.
C33_CreateConflictContinues ==
    (last.op = "pass" /\ "race" \in DOMAIN last) =>
        \A n \in CreateConflicts(last) :
            /\ n \in UpdatedNs(last)
            /\ cluster.sccRB[n] # Absent
            /\ hasSubject(cluster.sccRB[n].Subjects, SASubject(n))
            /\ hasSubject(CRBSubjects(cluster), SASubject(n))

---------------------------------------------------------------------------
(* Grant bindings whose subjects somebody outside has changed, while       *)
(* annotations come and go and API calls fail.                             *)

\* A subject nobody of the reconciler writes.
BuilderSubject(n) == [Kind |-> "ServiceAccount", Name |-> "builder", Namespace |-> n]

\* The subject lists somebody outside leaves on the grant binding of n.
GrantSubjectLists(n) ==
    {<<>>, <<SASubject(n)>>, <<BuilderSubject(n)>>, <<BuilderSubject(n), SASubject(n)>>}

\* Somebody outside replaces the subjects of a grant binding.
SetGrantSubjects ==
    \E n \in Namespaces : \E subjects \in GrantSubjectLists(n) :
        /\ ActiveApp(n)
        /\ cluster.sccRB[n] # Absent
        /\ cluster.sccRB[n].Subjects # subjects
        /\ Outside([cluster EXCEPT !.sccRB[n].Subjects = subjects], tektonConfig)

NextSwitch == Reconcile \/ ReconcileWithFault \/ SetAnnotation \/ SetGrantSubjects

SpecSwitch == Init /\ [][NextSwitch]_vars

---------------------------------------------------------------------------
(* C34 *)

\* The namespaces the pass recorded in l selected and whose grant binding
\* was bound to another role than the one the annotation resolves to.
BoundElsewhere(l) ==
    {n \in SelectedNs(l) :
        l.pre.sccRB[n] # Absent /\ l.pre.sccRB[n].RoleRef # ResolvedRoleRef(l.pre, n)}

\* The calls of the log with this verb on the grant binding of n.
GrantCalls(log, verb, n) ==
    {i \in 1..Len(log) :
        log[i][1] = verb /\ log[i][2] = pipelinesSCCRoleBinding /\ log[i][3] = n}

\* C34 (role-reference switch): a grant binding bound to another role than
\* the resolved one is never updated in place; when the four steps return
\* no error for its namespace the binding was deleted and then created,
\* is bound to the resolved role and has the workload identity as its only
\* subject.  And no Update of a grant binding changes its role reference.
C34_RoleRefSwitchRecreates ==
    last.op = "pass" =>
        /\ \A n \in BoundElsewhere(last) :
              /\ GrantCalls(last.log, "Update", n) = {}
              /\ n \in UpdatedNs(last) =>
                    /\ \E d \in GrantCalls(last.log, "Delete", n) :
                       \E c \in GrantCalls(last.log, "Create", n) : d < c
                    /\ cluster.sccRB[n] # Absent
                    /\ cluster.sccRB[n].RoleRef = ResolvedRoleRef(cluster, n)
                    /\ cluster.sccRB[n].Subjects = <<SASubject(n)>>
        /\ \A n \in Namespaces :
              (GrantCalls(last.log, "Update", n) # {} /\ last.pre.sccRB[n] # Absent) =>
                  cluster.sccRB[n].RoleRef = last.pre.sccRB[n].RoleRef

\* A pass switched a binding that named another subject besides the
\* identity from the Role to the shared ClusterRole.
C34_Witness ==
    /\ last.op = "pass"
    /\ \E n \in BoundElsewhere(last) :
          /\ n \in UpdatedNs(last)
          /\ last.pre.sccRB[n].RoleRef = NsRoleRef
          /\ last.pre.sccRB[n].Subjects = <<BuilderSubject(n), SASubject(n)>>
          /\ cluster.sccRB[n].RoleRef = ClusterRoleRef

---------------------------------------------------------------------------
(* updateRoleBinding on its own: any subjects and owner references on the  *)
(* grant binding and the legacy binding of one namespace.                  *)

\* The namespace whose bindings are updated.
BindingNs == NamespaceItems[1]

\* The subject lists found on a binding: the identity, a subject of the
\* same namespace and the identity of another namespace, none twice.
BindingSubjectLists ==
    {q \in SeqsUpTo({SASubject(BindingNs), BuilderSubject(BindingNs),
                     SASubject(NamespaceItems[2])}, 3) :
        \A i, j \in 1..Len(q) : q[i] = q[j] => i = j}

\* Both bindings of the namespace exist, with any subjects and owner
\* references.
InitBinding ==
    /\ cluster \in {[InitCluster EXCEPT
                        !.sa[BindingNs] = [OwnerReferences |-> <<tektonConfigOwnerRef>>],
                        !.sccClusterRole = SCCRuleRole(InitConfig.Default),
                        !.sccRB[BindingNs] = [RoleRef |-> ClusterRoleRef, Subjects |-> s1,
                                              OwnerReferences |-> refs1],
                        !.editRB[BindingNs] = [RoleRef |-> EditRoleRef, Subjects |-> s2,
                                               OwnerReferences |-> refs2]] :
                       s1 \in BindingSubjectLists, refs1 \in OwnerRefLists,
                       s2 \in {<<>>, <<SASubject(BindingNs)>>}, refs2 \in {<<>>, <<rOwnerRef>>}}
    /\ tektonConfig = InitConfig
    /\ informer = Observe(cluster)
    /\ last = NoPass
    /\ faults = 0

\* u is what updateRoleBinding returned.
UpdateBindingDone(u, which, F) ==
    /\ cluster' = u.x.c
    /\ informer' = Observe(u.x.c)
    /\ last' = [op |-> "updateRoleBinding", pre |-> cluster, which |-> which, F |-> F,
                err |-> u.err, log |-> u.x.log, calls |-> u.x.k]
    /\ UNCHANGED <<tektonConfig, faults>>

\* ensurePipelinesSCCRoleBinding or ensureRoleBindings has read the binding
\* and hands it to updateRoleBinding with the role it is bound to; none of
\* the Update calls fails, or the first or the second does.
UpdateBinding ==
    \E which \in {"sccRB", "editRB"} : \E F \in {{}, {1}, {2}} :
        LET x == Ctx(cluster, tektonConfig, informer, F)
            rb == GetRB(x, which, BindingNs)
        IN UpdateBindingDone(
               updateRoleBinding(x, which, rb, [Name |-> pipelineSA, Namespace |-> BindingNs],
                                 rb.RoleRef),
               which, F)

NextBinding == UpdateBinding

SpecBinding == InitBinding /\ [][NextBinding]_vars

---------------------------------------------------------------------------
(* C35 *)

\* The binding updateRoleBinding was handed, and the one it left.
BindingBefore(l) == IF l.which = "sccRB" THEN l.pre.sccRB[BindingNs] ELSE l.pre.editRB[BindingNs]

BindingAfter(l, c) == IF l.which = "sccRB" THEN c.sccRB[BindingNs] ELSE c.editRB[BindingNs]

UpdateCalls(l) == {i \in 1..Len(l.log) : l.log[i][1] = "Update"}

\* C35 (binding update no-op): updateRoleBinding issues no Update call for
\* a binding that lists the workload identity and holds the reference to
\* the installer set of this release; when the subject is missing or that
\* reference is not held it issues exactly one Update call, and the
\* persisted binding lists the identity exactly once.
C35_OneUpdateOrNone ==
    (last.op = "updateRoleBinding" /\ last.err = NoErr) =>
        IF /\ hasSubject(BindingBefore(last).Subjects, SASubject(BindingNs))
           /\ hasOwnerRefernce(BindingBefore(last).OwnerReferences, rOwnerRef)
        THEN UpdateCalls(last) = {}
        ELSE /\ Cardinality(UpdateCalls(last)) = 1
             /\ Occurrences(BindingAfter(last, cluster).Subjects, SASubject(BindingNs)) = 1

---------------------------------------------------------------------------
(* C36 *)

\* No subject occurs twice in the list.
NoDuplicates(list) == \A i, j \in 1..Len(list) : list[i] = list[j] => i = j

\* C36 (no-duplicate invariant): the subject list of the cluster role
\* binding never holds the same (kind, name, namespace) twice, whatever
\* passes have run and in whatever order namespaces were reconciled, lost
\* their label or were deleted.
C36_NoDuplicateSubjects == NoDuplicates(CRBSubjects(cluster))

\* A pass has merged the one namespace it reconciled into a binding that
\* held it already, behind the identity of a namespace that comes later in
\* the list of namespaces.
C36_Witness ==
    /\ last.op = "pass"
    /\ last.stage = "aggregated"
    /\ CRBSubjects(last.pre) = <<SASubject(NamespaceItems[2]), SASubject(NamespaceItems[1])>>
    /\ UpdatedNs(last) = {NamespaceItems[1]}
    /\ Writes(last, "Update", "ClusterRoleBinding") # {}

---------------------------------------------------------------------------
(* Trust bundles: owner references left on a config map, a config map      *)
(* deleted, a trust-bundle label dropped, and somebody else creating a     *)
(* config map between the Get and the Create of a pass.                    *)

ConfigMapNames == DOMAIN NoConfigMaps

\* Somebody outside leaves an owner reference on a trust-bundle config map.
SetConfigMapOwnerReferences ==
    \E n \in Namespaces : \E name \in ConfigMapNames :
        /\ ActiveApp(n)
        /\ cluster.cm[n][name] # Absent
        /\ cluster.cm[n][name].OwnerReferences = <<>>
        /\ Outside([cluster EXCEPT !.cm[n][name].OwnerReferences = <<ForeignRef>>],
                   tektonConfig)

\* Somebody outside deletes a trust-bundle config map.
DeleteConfigMap ==
    \E n \in Namespaces : \E name \in ConfigMapNames :
        /\ ActiveApp(n)
        /\ cluster.cm[n][name] # Absent
        /\ Outside([cluster EXCEPT !.cm[n][name] = Absent], tektonConfig)

\* Somebody outside removes the trust-bundle label of a namespace.
DropTrustedConfigLabel ==
    \E n \in Namespaces :
        /\ ActiveApp(n)
        /\ cluster.ns[n].ca # ""
        /\ Outside([cluster EXCEPT !.ns[n].ca = ""], tektonConfig)

\* o is what createResources returned in a pass with such a race.
PassDoneRacingCM(o, raceCM) ==
    /\ cluster' = o.x.c
    /\ informer' = Observe(o.x.c)
    /\ last' = [op |-> "pass", pre |-> cluster, F |-> {}, err |-> o.err,
                RBACNamespaces |-> o.RBACNamespaces, CANamespaces |-> o.CANamespaces,
                namespacesToUpdate |-> o.namespacesToUpdate, failed |-> o.failed,
                stage |-> o.stage, patched |-> o.x.patched,
                log |-> o.x.log, calls |-> o.x.k, raceCM |-> raceCM]
    /\ UNCHANGED tektonConfig

\* A pass without API faults during which somebody else creates the config
\* maps in raceCM after the pass has looked for them.
ReconcileRacingCM ==
    /\ \E raceCM \in SUBSET {p \in Namespaces \X ConfigMapNames :
                               ActiveApp(p[1]) /\ cluster.cm[p[1]][p[2]] = Absent} :
           /\ raceCM # {}
           /\ PassDoneRacingCM(
                  createResources([Ctx(cluster, tektonConfig, informer, {})
                                      EXCEPT !.raceCM = raceCM]),
                  raceCM)
    /\ UNCHANGED faults

NextBundles ==
    Reconcile \/ ReconcileWithFault \/ ReconcileRacingCM \/ SetConfigMapOwnerReferences
        \/ DeleteConfigMap \/ DropTrustedConfigLabel

SpecBundles == InitGate /\ [][NextBundles]_vars

---------------------------------------------------------------------------
(* C37 *)

\* The pass recorded in l got as far as the trust-bundle loop of step 5.
CALoopRan(l) ==
    /\ l.err = NoErr
    /\ l.stage \in {"aggregated", "none to aggregate", "no rbac work"}

\* The config maps somebody else created during the pass recorded in l.
RacedConfigMaps(l) == IF "raceCM" \in DOMAIN l THEN l.raceCM ELSE {}

\* The pass recorded in l patched the trust-bundle label of namespace n.
StampedCA(l, n) == \E i \in 1..Len(l.log) : l.log[i] = <<"Patch", "NamespaceCA", n>>

\* In the pass recorded in l, config map name of namespace n was created,
\* or found by the failed Create, or updated.
EnsuredCM(l, n, name) ==
    \/ <<n, name>> \in RacedConfigMaps(l) /\ l.pre.cm[n][name] = Absent
    \/ \E i \in 1..Len(l.log) :
          l.log[i] = <<IF l.pre.cm[n][name] = Absent THEN "Create" ELSE "Update", name, n>>

\* Namespace n holds both config maps in c, without owner references.
BundlesEnsured(c, n) ==
    /\ HoldsCABundles(c, n)
    /\ \A name \in ConfigMapNames : c.cm[n][name].OwnerReferences = <<>>

\* C37 (trust-bundle reconciliation): in a pass that reaches the
\* trust-bundle loop, for each namespace selected for trust-bundle work:
\* when no API call fails, both config maps exist afterwards, also when
\* somebody else created one in between, a config map that was there
\* before has no owner references left, and the trust-bundle label is the
\* release; the label is patched only when both config maps were ensured
\* in this pass; and a namespace that is not patched keeps the label it
\* had and is selected for trust-bundle work by the next pass.
C37_TrustBundlesEnsured ==
    (last.op = "pass" /\ CABundlesEnabled /\ CALoopRan(last)) =>
        \A n \in SeqSet(last.CANamespaces) :
            /\ last.F = {} => BundlesEnsured(cluster, n) /\ cluster.ns[n].ca = version
            /\ StampedCA(last, n) =>
                  /\ BundlesEnsured(cluster, n)
                  /\ cluster.ns[n].ca = version
                  /\ \A name \in ConfigMapNames : EnsuredCM(last, n, name)
            /\ ~StampedCA(last, n) =>
                  /\ cluster.ns[n].ca = last.pre.ns[n].ca
                  /\ n \in SeqSet(NextPass.CANamespaces)

\* A pass in which somebody else created one config map of a selected
\* namespace in between and the other one was there with an owner
\* reference: the namespace ends with both, without owner references, and
\* with the label.
C37_Witness ==
    /\ last.op = "pass" /\ CABundlesEnabled /\ CALoopRan(last)
    /\ \E n \in SeqSet(last.CANamespaces) :
          /\ StampedCA(last, n)
          /\ \E name \in ConfigMapNames : <<n, name>> \in RacedConfigMaps(last)
          /\ \E name \in ConfigMapNames :
                /\ last.pre.cm[n][name] # Absent
                /\ last.pre.cm[n][name].OwnerReferences # <<>>
          /\ BundlesEnsured(cluster, n)

\* A pass with a failing call in which a selected namespace is not patched
\* and keeps the label it had.
C37_FailedNamespaceKeepsLabel ==
    /\ last.op = "pass" /\ CABundlesEnabled /\ CALoopRan(last)
    /\ last.F # {}
    /\ \E n \in SeqSet(last.CANamespaces) :
          ~StampedCA(last, n) /\ cluster.ns[n].ca = last.pre.ns[n].ca

---------------------------------------------------------------------------
(* C38 *)

\* The pass recorded in l created the installer set of this release.
CreatedInstallerSet(l) == Writes(l, "Create", "TektonInstallerSet") # {}

\* C38 (atomicity of the version gate): in a pass whose gate finds no
\* installer set of this release, the installer set is created only after
\* the label of every namespace that carried the value of this release has
\* been removed: every Update of cleanUp precedes the Create, and when the
\* pass has created the set no namespace carries the value any more.  When
\* a call of the gate fails and a label is left, the pass returns that
\* error, not the reconcile-again signal, no installer set is created, and
\* the next pass removes the labels that are left and creates the set.  So
\* after such a pass the installer set never exists next to a label of this
\* release.
C38_GateAtomic ==
    GatePass(last) =>
        /\ CreatedInstallerSet(last) =>
              /\ LabelledNs(cluster) = {}
              /\ \A i \in Writes(last, "Update", "Namespace") :
                    \A j \in Writes(last, "Create", "TektonInstallerSet") : i < j
        /\ cluster.iset = version => CreatedInstallerSet(last) /\ LabelledNs(cluster) = {}
        /\ LabelledNs(cluster) # {} =>
              /\ last.err \notin {NoErr, RECONCILE_AGAIN_ERR}
              /\ ~CreatedInstallerSet(last)
              /\ cluster.iset # version
              /\ NextPass.err = RECONCILE_AGAIN_ERR
              /\ NextPass.x.c.iset = version
              /\ LabelledNs(NextPass.x.c) = {}
              /\ \A n \in LabelledNs(cluster) :
                    \E i \in 1..Len(NextPass.x.log) :
                        NextPass.x.log[i] = <<"Update", "Namespace", n>>

\* The installer set was lost, the gate removed the label of one namespace
\* and the Update of the next one failed: a label of this release is left
\* and no installer set exists.
C38_Witness ==
    /\ GatePass(last)
    /\ last.F # {}
    /\ Writes(last, "Update", "Namespace") # {}
    /\ LabelledNs(cluster) # {}
    /\ last.err = InternalError
    /\ cluster.iset # version

---------------------------------------------------------------------------
(* The two feature flags switched on and off on a cluster that has been    *)
(* reconciled or not.                                                      *)

\* The administrator sets createRbacResource.
SetCreateRbacResource ==
    \E v \in {"true", "false"} :
        /\ ParamIsFalse(tektonConfig, rbacParamName) # (v = "false")
        /\ Outside(cluster, SetParam(tektonConfig, rbacParamName, v))

\* The administrator sets createCABundleConfigMaps, also to a value that
\* is neither "true" nor "false".
SetCreateCABundleConfigMaps ==
    \E v \in ToggleValues :
        /\ \A i \in 1..Len(tektonConfig.Params) :
              tektonConfig.Params[i].Name = trustedCABundleParamName =>
                  tektonConfig.Params[i].Value # v
        /\ Outside(cluster, SetParam(tektonConfig, trustedCABundleParamName, v))

\* The administrator names a default SCC the cluster does not have, or the
\* shipped one again.
SetUnknownDefault ==
    \E d \in {"nonroot", UnknownSCC} :
        /\ d # tektonConfig.Default
        /\ Outside(cluster, [tektonConfig EXCEPT !.Default = d])

NextFlags ==
    Reconcile \/ ReconcileWithFault \/ SetCreateRbacResource \/ SetCreateCABundleConfigMaps
        \/ SetUnknownDefault \/ DropVersionLabel

SpecFlags == InitGate /\ [][NextFlags]_vars

---------------------------------------------------------------------------
(* C39 *)

\* The kinds of the log that trust-bundle work writes.
TrustBundleKinds == ConfigMapNames \cup {"NamespaceCA"}

\* What RBAC reconciliation and the version gate own is in c as it is in d.
SameRBACState(c, d) ==
    /\ c.sa = d.sa /\ c.role = d.role /\ c.sccRB = d.sccRB /\ c.editRB = d.editRB
    /\ c.sccClusterRole = d.sccClusterRole
    /\ c.ciClusterRole = d.ciClusterRole /\ c.ciCRB = d.ciCRB
    /\ c.iset = d.iset /\ c.isetOld = d.isetOld
    /\ \A n \in Namespaces : c.ns[n].rbac = d.ns[n].rbac

\* C39 (createRbacResource "false"): a pass under createRbacResource
\* "false" runs neither the version gate nor the validation of the SCCs --
\* it does not end in the prerequisites, also when no installer set of the
\* release exists or the default SCC is unknown --, writes no identity,
\* Role, ClusterRole, binding, cluster role binding or installer set, and
\* neither patches nor removes an rbac-version label, whatever the
\* namespaces carry.  When createCABundleConfigMaps is not "false" the
\* trust-bundle work runs: without a failing call every namespace that is
\* not excluded and whose trust-bundle label is not the release ends with
\* the two config maps and the label.  When it is "false" too, the pass
\* issues no API call, changes nothing and returns nil.
C39_RBACOffFrame ==
    (last.op = "pass" /\ ~RBACEnabled) =>
        /\ last.stage # "prerequisites failed"
        /\ last.err \notin {RECONCILE_AGAIN_ERR, PolicyViolation, NotFoundErr}
        /\ \A i \in 1..Len(last.log) : last.log[i][2] \in TrustBundleKinds
        /\ SameRBACState(cluster, last.pre)
        /\ last.patched = {}
        /\ ProcessedNs(last) = {}
        /\ CABundlesEnabled =>
              /\ last.F = {} =>
                    /\ last.err = NoErr
                    /\ last.calls > 0
                    /\ \A n \in Namespaces :
                          (Eligible(last.pre, n) /\ last.pre.ns[n].ca # version) =>
                              BundlesEnsured(cluster, n) /\ cluster.ns[n].ca = version
        /\ ~CABundlesEnabled =>
              /\ last.stage = "disabled"
              /\ last.calls = 0
              /\ last.log = <<>>
              /\ last.err = NoErr
              /\ cluster = last.pre

\* A pass under createRbacResource "false" on a cluster without installer
\* set of the release and with an unknown default SCC, in which a namespace
\* that waits for RBAC work got its trust bundles.
C39_Witness ==
    /\ last.op = "pass" /\ ~RBACEnabled /\ CABundlesEnabled
    /\ last.pre.iset # version
    /\ tektonConfig.Default = UnknownSCC
    /\ \E n \in Namespaces :
          /\ Eligible(last.pre, n)
          /\ last.pre.ns[n].rbac # version
          /\ StampedCA(last, n)
          /\ BundlesEnsured(cluster, n)

\* A pass with both flags "false" on a cluster whose namespaces wait for
\* RBAC and trust-bundle work: nothing is called.
C39_WitnessBothOff ==
    /\ last.op = "pass" /\ ~RBACEnabled /\ ~CABundlesEnabled
    /\ last.calls = 0
    /\ \E n \in Namespaces :
          /\ Eligible(last.pre, n)
          /\ last.pre.ns[n].rbac # version
          /\ last.pre.ns[n].ca # version

---------------------------------------------------------------------------
(* ProxyTransformer (shared/tektonconfig/transformer_proxy.go).  A string  *)
(* is held as the sequence of its lines, what strings.Split(s, "\n")       *)
(* returns: the empty string is <<"">>, and a string that ends in a line   *)
(* break has "" as its last line.                                          *)

\* most chunks an initial default pod template is put together from
MaxChunks == 3

ProxyNames == <<"HTTP_PROXY", "HTTPS_PROXY", "NO_PROXY">>

\* The values of the three variables: not set, or a URL or host list (none
\* of them holds a character that %q would escape).
ProxyEnvs ==
    {[HTTP_PROXY |-> h, HTTPS_PROXY |-> s, NO_PROXY |-> n] :
        h \in {"", "http://a:3128", "http://b:3128"}, s \in {"", "http://a:3128"},
        n \in {"", ".svc"}}

\* fmt.Sprintf("%q", v) for such a value.
Quote(v) == "\"" \o v \o "\""

NameLine(name) == "  - name: " \o name

ValueLine(v) == "    value: " \o Quote(v)

\* strings.Contains(l, "name: HTTP_PROXY") || ... for the lines a template
\* is made of here: the name lines of the block, and the name line of a
\* variable of the user whose name starts like one of the three.
UserProxyNameLine == NameLine("NO_PROXY_EXTRA")

ContainsProxyName(l) ==
    \/ \E i \in 1..Len(ProxyNames) : l = NameLine(ProxyNames[i])
    \/ l = UserProxyNameLine

\* The lines strings.TrimSpace reduces to nothing.
BlankLines == {"", "  "}

\* lines 240-242: none of the three variables is set.
NoProxySet(env) == \A i \in 1..Len(ProxyNames) : env[ProxyNames[i]] = ""

\* lines 245-266: the lines of proxyBlock.
RECURSIVE proxyBlockFrom(_, _)
proxyBlockFrom(env, i) ==
    IF i > Len(ProxyNames) THEN <<>>
    ELSE (IF env[ProxyNames[i]] # ""
          THEN <<NameLine(ProxyNames[i]), ValueLine(env[ProxyNames[i]])>>
          ELSE <<>>) \o proxyBlockFrom(env, i + 1)

proxyBlock(env) == <<"env:">> \o proxyBlockFrom(env, 1)

\* proxyBlock + "\n"
desiredSuffix(env) == Append(proxyBlock(env), "")

\* strings.HasSuffix(l, s) for one line of a template here: no line of
\* these templates ends with another one but after a blank one.
LineHasSuffix(l, s) == l = s \/ s = "" \/ (l = "  " /\ s = " ")

\* strings.HasSuffix(current, suffix) on lines: the last lines are those of
\* the suffix, and the line the suffix starts in ends with its first line.
HasSuffix(current, suffix) ==
    /\ Len(current) >= Len(suffix)
    /\ LineHasSuffix(current[Len(current) - Len(suffix) + 1], suffix[1])
    /\ \A i \in 2..Len(suffix) : current[Len(current) - Len(suffix) + i] = suffix[i]

\* strings.TrimSpace(current) == ""
TrimSpaceIsEmpty(current) == \A i \in 1..Len(current) : current[i] \in BlankLines

\* lines 284-295: a line that contains one of the three names is dropped
\* together with the line after it.
RECURSIVE filterLoop(_, _, _)
filterLoop(origLines, i, filtered) ==
    IF i > Len(origLines) THEN filtered
    ELSE IF ContainsProxyName(origLines[i]) THEN filterLoop(origLines, i + 2, filtered)
    ELSE filterLoop(origLines, i + 1, Append(filtered, origLines[i]))

\* strings.Join(filtered, "\n"), as lines: no line gives the empty string.
JoinLines(filtered) == IF filtered = <<>> THEN <<"">> ELSE filtered

\* lines 298-301: merged, ending in a line break.
mergedWithNewline(merged) ==
    IF Len(merged) >= 2 /\ merged[Len(merged)] = "" THEN merged ELSE Append(merged, "")

\* ProxyTransformer: the default pod template it leaves.
ProxyTransformer(current, env) ==
    IF NoProxySet(env) THEN current
    ELSE IF HasSuffix(current, desiredSuffix(env)) THEN current
    ELSE IF TrimSpaceIsEmpty(current) THEN desiredSuffix(env)
    ELSE SubSeq(mergedWithNewline(JoinLines(filterLoop(current, 1, <<>>))), 1,
                Len(mergedWithNewline(JoinLines(filterLoop(current, 1, <<>>)))) - 1)
             \o desiredSuffix(env)

\* What a default pod template is put together from: lines of the user,
\* blank lines, a line break at the end, and proxy blocks as the transformer
\* writes them for some values of the variables.
TemplateChunks ==
    {<<"nodeSelector:">>, <<"env:">>, <<UserProxyNameLine, ValueLine("x")>>, <<"">>, <<"  ">>}
        \cup {proxyBlock(e) : e \in {p \in ProxyEnvs : p.HTTPS_PROXY = "" /\ p.NO_PROXY = ""
                                                        /\ p.HTTP_PROXY # ""}}
        \cup {proxyBlock([HTTP_PROXY |-> "http://a:3128", HTTPS_PROXY |-> "http://a:3128",
                          NO_PROXY |-> ".svc"])}

RECURSIVE TemplatesOf(_)
TemplatesOf(n) ==
    IF n = 0 THEN {<<"">>}
    ELSE TemplatesOf(n - 1)
            \cup {IF t = <<"">> THEN c ELSE t \o c : t \in TemplatesOf(n - 1), c \in TemplateChunks}

\* Any default pod template in the TektonConfig, any values of the three
\* variables in the environment of the operator process (all this
\* specification keeps of the operator's surroundings).
InitProxy ==
    /\ cluster \in {[env |-> e] : e \in ProxyEnvs}
    /\ tektonConfig \in {[DefaultPodTemplate |-> t] : t \in TemplatesOf(MaxChunks)}
    /\ informer = <<>>
    /\ last = NoPass
    /\ faults = 0

\* One call of ProxyTransformer under the variables as they are.
ApplyProxyTransformer ==
    /\ tektonConfig' = [DefaultPodTemplate |->
                            ProxyTransformer(tektonConfig.DefaultPodTemplate, cluster.env)]
    /\ last' = [op |-> "ProxyTransformer", pre |-> tektonConfig.DefaultPodTemplate]
    /\ UNCHANGED <<cluster, informer, faults>>

NextProxy == ApplyProxyTransformer

SpecProxy == InitProxy /\ [][NextProxy]_vars

---------------------------------------------------------------------------
(* C40 *)

\* The places of template where the lines of block stand one after another.
BlockPlaces(template, block) ==
    {i \in 1..Len(template) :
        /\ i + Len(block) - 1 <= Len(template)
        /\ \A j \in 1..Len(block) : template[i + j - 1] = block[j]}

\* C40 (ProxyTransformer is idempotent): for any default pod template and
\* any values of HTTP_PROXY, HTTPS_PROXY and NO_PROXY, a second call of
\* ProxyTransformer leaves the template the first call left; after a call
\* the template holds the proxy block exactly once; and when none of the
\* three is set the call leaves the template as it was.
C40_ProxyBlockOnce ==
    /\ ProxyTransformer(ProxyTransformer(tektonConfig.DefaultPodTemplate, cluster.env),
                        cluster.env)
          = ProxyTransformer(tektonConfig.DefaultPodTemplate, cluster.env)
    /\ last.op = "ProxyTransformer" =>
          /\ NoProxySet(cluster.env) => tektonConfig.DefaultPodTemplate = last.pre
          /\ ~NoProxySet(cluster.env) =>
                Cardinality(BlockPlaces(tektonConfig.DefaultPodTemplate,
                                        proxyBlock(cluster.env))) = 1

=============================================================================
